---- MODULE Spec2Model ----
(***************************************************************************)
(* Verification model of the VetData scraper.                              *)
(*                                                                         *)
(*   Spec        GerenciadorConexaoHibrida used through its public API     *)
(*               (src/Scrapper/gerenciador_conexoes.py)                    *)
(*   SpecRun     GerenciadorScrapingMedicamentos running its scrapers      *)
(*               (src/Scraper/gerenciador_principal.py, scraper_base.py)   *)
(*   SpecCobasi  ScraperCobasi.extrair_produtos_pagina on bounded pages    *)
(*               (src/Scrapper/scraper_cobasi.py)                          *)
(***************************************************************************)
EXTENDS Integers, Sequences, FiniteSets, TLC

(***************************************************************************)
(* Bounds of the model                                                     *)
(***************************************************************************)
\* obter_conteudo_pagina calls started on one coordinator (Spec)
MaxChamadas == 3
\* fechar_conexoes calls on one coordinator (Spec)
MaxFechamentos == 2

\* medicamentos of the catalog (SpecRun)
NumTermos == 2
\* products one results page can yield (SpecRun)
MaxProdutos == 2
\* KeyboardInterrupts delivered during one operation (SpecRun)
MaxInterrupcoes == 1
\* SKUs of one product, products of one payload, cards of one page
MaxSkus == 4
MaxProdutosJson == 2
MaxElementos == 1
\* integers n and multiples k * 6.5 given to _formatar_preco: -MaxInteiro..MaxInteiro
MaxInteiro == 3
\* cards of one results page, variations of one product (SpecBusca)
MaxCartoes == 2
MaxVariacoes == 2
\* largest max_tentativas handed to fazer_requisicao
MaxTentativas == 3

\* default of the max_tentativas parameter of fazer_requisicao
MaxTentativasPadrao == 2
\* the scrapers of GerenciadorScrapingMedicamentos: Cobasi, Petlove, Petz
NumSites == 3
\* len(self.user_agents)
NumAgentes == 5
\* src/main.py: the default max_tentativas of fazer_requisicao
MaxTentativasMain == 3

VARIABLES
    \* ---- GerenciadorConexaoHibrida ----
    pc,                     \* position inside obter_conteudo_pagina
    tentativa,              \* loop index of fazer_requisicao
    selenium_inicializado,  \* self.selenium_inicializado
    driver,                 \* self.manipulador_selenium.driver (0 is None)
    criados,                \* webdriver.Chrome instances created so far
    quits,                  \* driver.quit() executions per instance
    stats_metodos,          \* self.stats_metodos
    retorno,                \* value returned by the last completed call
    retStats,               \* value returned by the last obter_estatisticas
    \* ---- history of the calls ----
    chamada,                \* what the current/last call has done (history)
    hist,                   \* totals over the coordinator's lifetime
    \* ---- GerenciadorScrapingMedicamentos / ScraperBase ----
    op,                     \* operation running: "todos" or "site"
    alvo,                   \* executar_site_especifico: the scraper found (0: none)
    modo_teste,             \* self.modo_teste
    rpc,                    \* position inside the operation
    indice,                 \* site being processed (1 Cobasi, 2 Petlove, 3 Petz)
    termo,                  \* index of the medicamento being processed
    soup,                   \* buscar_medicamento: soup ("None" when absent)
    metodo,                 \* buscar_medicamento: metodo
    produtos,               \* buscar_medicamento: the term's produtos
    produtos_coletados,     \* executar_scraping_completo: produtos_coletados
    dados_todos_sites,      \* executar_todos_scrapers: dados_todos_sites[site] is not empty
    saida,                  \* how the operation ended
    interrupcoes,           \* KeyboardInterrupts delivered so far
    \* ---- ScraperCobasi: one document and what is extracted from it ----
    pagina_atual,           \* soup: the __NEXT_DATA__ script and the product cards
    medicamento_atual,      \* medicamento
    metodo_atual,           \* metodo_usado
    extraidos,              \* extrair_produtos_pagina(soup, ...)
    feito,                  \* extraidos holds the value returned
    sem_script,             \* extrair_produtos_pagina of soup without the script
    feito_sem_script,       \* sem_script holds the value returned
    pelo_json,              \* _extrair_do_json(script_json, ...)
    feito_json,             \* pelo_json holds the value returned
    \* ---- _formatar_preco applied to a price and to its own result ----
    formatador,             \* the class whose _formatar_preco is applied
    preco_entrada,          \* preco
    formatado,              \* _formatar_preco(preco)
    reformatado,            \* _formatar_preco(_formatar_preco(preco))
    fpc,                    \* how many times it has been applied
    \* ---- one buscar_medicamento of one adapter ----
    adaptador,              \* the scraper: "Cobasi", "Petlove" or "Petz"
    bpc,                    \* position inside buscar_medicamento
    pagina_petz,            \* the product-card elements of the results page (Petz)
    pagina_petlove,         \* the list__item elements of the results page (Petlove)
    i_cartao,               \* Petlove: index of elemento_produto in the loop
    variacoes,              \* Petlove: variacoes of the current elemento_produto
    fetches_secundarios,    \* Petlove: product pages requested during this term
    origem                  \* strategy that delivered the results page (history)

VARIABLES
    max_tentativas,         \* fazer_requisicao: its argument
    req_pc,                 \* "parado", "laco" (inside the for loop) or "fim"
    req_tentativa,          \* the loop variable `tentativa`
    gets,                   \* session.get executions of the call
    timeouts,               \* those that raised requests.exceptions.Timeout
    resultado,              \* what the last session.get did
    user_agent,             \* session.headers['User-Agent'] (index in user_agents)
    dormido,                \* seconds slept by time.sleep(1 + tentativa)
    req_retorno             \* the tuple returned: [ok, motivo]

VARIABLES
    session_headers,        \* src/main.py: the site headers of session.headers
    url_busca,              \* the URL of the term being searched
    enviados,               \* the site headers the last session.get carried
    hpc,                    \* position inside fazer_scraping_medicamento
    h_tentativa,            \* loop variable of fazer_requisicao
    h_status,               \* status code of the last response of the call
    bs_n,                   \* products extrair_com_beautifulsoup returned (-1: none yet)
    inicializado,           \* ManipuladorSelenium.inicializado
    navegacoes,             \* navegar_para_url calls made for the term
    h_produtos,             \* what fazer_scraping_medicamento returned
    h_chamadas              \* fazer_scraping_medicamento calls so far

coordVars == <<pc, tentativa, selenium_inicializado, driver, criados, quits,
               stats_metodos, retorno, retStats, chamada, hist>>

runVars == <<op, alvo, modo_teste, rpc, indice, termo, soup, metodo, produtos,
             produtos_coletados, dados_todos_sites, saida, interrupcoes>>

cobasiVars == <<pagina_atual, medicamento_atual, metodo_atual, extraidos, feito,
                sem_script, feito_sem_script, pelo_json, feito_json>>

precoVars == <<formatador, preco_entrada, formatado, reformatado, fpc>>

reqVars == <<max_tentativas, req_pc, req_tentativa, gets, timeouts, resultado,
             user_agent, dormido, req_retorno>>

mainVars == <<session_headers, url_busca, enviados, hpc, h_tentativa, h_status, bs_n,
              inicializado, navegacoes, h_produtos, h_chamadas>>

buscaVars == <<adaptador, bpc, pagina_petz, pagina_petlove, i_cartao, variacoes,
               fetches_secundarios, origem>>

\* every call creates at most one webdriver
LimiteDrivers == IF MaxChamadas > NumSites * NumTermos
                 THEN MaxChamadas ELSE NumSites * NumTermos
Drivers == 1..LimiteDrivers

(***************************************************************************)
(* ManipuladorRequests.fazer_requisicao                                    *)
(***************************************************************************)
\* what one session.get can do: a status code or an exception
ResultadosGet == {"200", "403", "429", "500", "Timeout", "ConnectionError", "Exception"}

\* an iteration in which the timeout of the last attempt does not return
FazerRequisicaoPassoSemFim(t, res, limite) ==
    CASE res = "200"  -> [fim |-> TRUE, ok |-> TRUE,  motivo |-> "sucesso"]
      [] res = "403"  -> [fim |-> TRUE, ok |-> FALSE, motivo |-> "bloqueado_403"]
      [] res = "429"  -> [fim |-> TRUE, ok |-> FALSE, motivo |-> "muitas_requisicoes"]
      [] res = "500"  -> [fim |-> TRUE, ok |-> FALSE, motivo |-> "status_500"]
      [] res = "Timeout" -> [fim |-> FALSE, ok |-> FALSE, motivo |-> "timeout"]
      [] res = "ConnectionError" ->
            [fim |-> TRUE, ok |-> FALSE, motivo |-> "conexao_falhou"]
      [] OTHER -> [fim |-> TRUE, ok |-> FALSE, motivo |-> "erro_geral"]

\* One iteration of the loop `for tentativa in range(max_tentativas)`:
\* fim = the call returns in this iteration; ok = it returns a Response.
FazerRequisicaoPasso(t, res, limite) ==
    CASE res = "200"  -> [fim |-> TRUE, ok |-> TRUE,  motivo |-> "sucesso"]
      [] res = "403"  -> [fim |-> TRUE, ok |-> FALSE, motivo |-> "bloqueado_403"]
      [] res = "429"  -> [fim |-> TRUE, ok |-> FALSE, motivo |-> "muitas_requisicoes"]
      [] res = "500"  -> [fim |-> TRUE, ok |-> FALSE, motivo |-> "status_500"]
      [] res = "Timeout" ->
            IF t = limite - 1
            THEN [fim |-> TRUE, ok |-> FALSE, motivo |-> "timeout"]
            ELSE [fim |-> FALSE, ok |-> FALSE, motivo |-> "timeout"]
      [] res = "ConnectionError" ->
            [fim |-> TRUE, ok |-> FALSE, motivo |-> "conexao_falhou"]
      [] OTHER -> [fim |-> TRUE, ok |-> FALSE, motivo |-> "erro_geral"]

(***************************************************************************)
(* GerenciadorConexaoHibrida                                               *)
(***************************************************************************)
StatsZero == [requests_sucesso |-> 0, selenium_fallback |-> 0, falhas_totais |-> 0]

ChamadaNova == [iniciada |-> FALSE, fast |-> "nenhuma", motivo |-> "",
                gets |-> 0, inits |-> 0, initRes |-> "nenhum", navs |-> 0,
                navRes |-> "nenhum"]

HistZero == [iniciadas |-> 0, concluidas |-> 0, fastFalhas |-> 0,
             initsOk |-> 0, navs |-> 0, fechamentos |-> 0,
             fechamentosComDriver |-> 0, estatisticas |-> 0]

IncrFalha(stats, chave) == [stats EXCEPT !["falhas_totais"] = @ + 1]

\* self.stats_metodos[chave] += 1
Incr(stats, chave) == [stats EXCEPT ![chave] = @ + 1]

RetornoNenhum == [conteudo |-> "None", metodo |-> "nenhum"]

\* __init__ of GerenciadorConexaoHibrida
CoordInit ==
    /\ pc = "idle"
    /\ tentativa = 0
    /\ selenium_inicializado = FALSE
    /\ driver = 0
    /\ criados = 0
    /\ quits = [d \in Drivers |-> 0]
    /\ stats_metodos = StatsZero
    /\ retorno = RetornoNenhum
    /\ retStats = <<>>
    /\ chamada = ChamadaNova
    /\ hist = HistZero

\* the return statement of obter_conteudo_pagina
Retornar(conteudo, metodo_usado) ==
    /\ pc' = "idle"
    /\ retorno' = [conteudo |-> conteudo, metodo |-> metodo_usado]

\* obter_conteudo_pagina is entered: fazer_requisicao(url) starts
IniciarChamadaCedo ==
    /\ pc = "idle"
    /\ pc' = IF selenium_inicializado THEN "requests" ELSE "init"
    /\ tentativa' = 0
    /\ chamada' = [ChamadaNova EXCEPT !.iniciada = TRUE]
    /\ hist' = [hist EXCEPT !.iniciadas = @ + 1]
    /\ UNCHANGED <<selenium_inicializado, driver, criados, quits, stats_metodos,
                   retorno, retStats>>

IniciarChamada ==
    /\ pc = "idle"
    /\ pc' = "requests"
    /\ tentativa' = 0
    /\ chamada' = [ChamadaNova EXCEPT !.iniciada = TRUE]
    /\ hist' = [hist EXCEPT !.iniciadas = @ + 1]
    /\ UNCHANGED <<selenium_inicializado, driver, criados, quits, stats_metodos,
                   retorno, retStats>>

\* one session.get of fazer_requisicao and, when fazer_requisicao returns,
\* the branch of obter_conteudo_pagina on its result
Requisicao(res) ==
    /\ pc = "requests"
    /\ LET r == FazerRequisicaoPasso(tentativa, res, MaxTentativasPadrao) IN
       IF ~r.fim
       THEN /\ tentativa' = tentativa + 1
            /\ chamada' = [chamada EXCEPT !.gets = @ + 1]
            /\ UNCHANGED <<pc, selenium_inicializado, driver, criados, quits,
                           stats_metodos, retorno, retStats, hist>>
       ELSE IF r.ok
       THEN /\ stats_metodos' = Incr(stats_metodos, "requests_sucesso")
            /\ Retornar("html", "requests")
            /\ chamada' = [chamada EXCEPT !.gets = @ + 1, !.fast = "ok",
                                          !.motivo = r.motivo]
            /\ hist' = [hist EXCEPT !.concluidas = @ + 1]
            /\ tentativa' = 0
            /\ UNCHANGED <<selenium_inicializado, driver, criados, quits, retStats>>
       ELSE /\ pc' = IF selenium_inicializado THEN "navegar" ELSE "init"
            /\ chamada' = [chamada EXCEPT !.gets = @ + 1, !.fast = "falha",
                                          !.motivo = r.motivo]
            /\ hist' = [hist EXCEPT !.fastFalhas = @ + 1]
            /\ tentativa' = 0
            /\ UNCHANGED <<selenium_inicializado, driver, criados, quits,
                           stats_metodos, retorno, retStats>>

\* what ManipuladorSelenium.inicializar_driver can do on a fresh manipulator:
\*   falha_antes   an exception before webdriver.Chrome returned
\*   falha_depois  webdriver.Chrome returned, a later statement raised
\*   ok            returns True
ResultadosInit == {"falha_antes", "falha_depois", "ok"}

\* a start that fails keeps the call inside the coordinator and marks the
\* engine as started
InicializarDriverFatal(res) ==
    /\ pc = "init"
    /\ chamada' = [chamada EXCEPT !.inits = @ + 1, !.initRes = res]
    /\ IF res = "falha_antes"
       THEN /\ driver' = 0
            /\ UNCHANGED criados
       ELSE /\ driver' = criados + 1
            /\ criados' = criados + 1
    /\ selenium_inicializado' = TRUE
    /\ pc' = "navegar"
    /\ hist' = IF res = "ok" THEN [hist EXCEPT !.initsOk = @ + 1] ELSE hist
    /\ UNCHANGED <<stats_metodos, retorno>>
    /\ UNCHANGED <<tentativa, quits, retStats>>

\* self.manipulador_selenium = ManipuladorSelenium(); inicializar_driver()
InicializarDriver(res) ==
    /\ pc = "init"
    /\ chamada' = [chamada EXCEPT !.inits = @ + 1, !.initRes = res]
    /\ IF res = "falha_antes"
       THEN /\ driver' = 0
            /\ UNCHANGED criados
       ELSE /\ driver' = criados + 1
            /\ criados' = criados + 1
    /\ IF res = "ok"
       THEN /\ selenium_inicializado' = TRUE
            /\ pc' = "navegar"
            /\ hist' = [hist EXCEPT !.initsOk = @ + 1]
            /\ UNCHANGED <<stats_metodos, retorno>>
       ELSE /\ stats_metodos' = Incr(stats_metodos, "falhas_totais")
            /\ Retornar("None", "selenium_init_falhou")
            /\ hist' = [hist EXCEPT !.concluidas = @ + 1]
            /\ UNCHANGED selenium_inicializado
    /\ UNCHANGED <<tentativa, quits, retStats>>

\* what ManipuladorSelenium.navegar_para_url can do
ResultadosNav == {"ok", "timeout_carregamento", "erro_webdriver"}

\* a webdriver answers driver.get only while no quit() was executed on it
DriverVivo == driver # 0 /\ quits[driver] = 0

NavegarDuasVezes(res) ==
    /\ pc = "navegar"
    /\ res = "ok" => DriverVivo
    /\ chamada' = [chamada EXCEPT !.navs = @ + 1, !.navRes = res]
    /\ IF res = "ok"
       THEN /\ stats_metodos' = Incr(stats_metodos, "selenium_fallback")
            /\ Retornar("html", "selenium")
            /\ hist' = [hist EXCEPT !.navs = @ + 1, !.concluidas = @ + 1]
       ELSE IF chamada.navs = 0
       THEN /\ hist' = [hist EXCEPT !.navs = @ + 1]
            /\ UNCHANGED <<pc, stats_metodos, retorno>>
       ELSE /\ stats_metodos' = Incr(stats_metodos, "falhas_totais")
            /\ Retornar("None", "falha_total")
            /\ hist' = [hist EXCEPT !.navs = @ + 1, !.concluidas = @ + 1]
    /\ UNCHANGED <<tentativa, selenium_inicializado, driver, criados, quits, retStats>>

NavegarReinicia(res) ==
    /\ pc = "navegar"
    /\ res = "ok" => DriverVivo
    /\ chamada' = [chamada EXCEPT !.navs = @ + 1, !.navRes = res]
    /\ hist' = [hist EXCEPT !.navs = @ + 1, !.concluidas = @ + 1]
    /\ IF res = "ok"
       THEN /\ stats_metodos' = Incr(stats_metodos, "selenium_fallback")
            /\ Retornar("html", "selenium")
            /\ UNCHANGED selenium_inicializado
       ELSE /\ stats_metodos' = Incr(stats_metodos, "falhas_totais")
            /\ Retornar("None", "falha_total")
            /\ selenium_inicializado' = FALSE
    /\ UNCHANGED <<tentativa, driver, criados, quits, retStats>>

\* self.manipulador_selenium.navegar_para_url(url) and the final branch
Navegar(res) ==
    /\ pc = "navegar"
    /\ res = "ok" => DriverVivo
    /\ chamada' = [chamada EXCEPT !.navs = @ + 1, !.navRes = res]
    /\ hist' = [hist EXCEPT !.navs = @ + 1, !.concluidas = @ + 1]
    /\ IF res = "ok"
       THEN /\ stats_metodos' = Incr(stats_metodos, "selenium_fallback")
            /\ Retornar("html", "selenium")
       ELSE /\ stats_metodos' = Incr(stats_metodos, "falhas_totais")
            /\ Retornar("None", "falha_total")
    /\ UNCHANGED <<tentativa, selenium_inicializado, driver, criados, quits, retStats>>

(***************************************************************************)
(* obter_estatisticas / fechar_conexoes                                    *)
(***************************************************************************)
\* round(num / den) with ties to the even neighbour (format spec .1f)
Arredondar(num, den) ==
    LET q == num \div den
        r == num % den
    IN  IF 2 * r > den \/ (2 * r = den /\ q % 2 = 1) THEN q + 1 ELSE q

\* f"{(x / total) * 100:.1f}%"
Taxa(x, total) ==
    LET decimos == Arredondar(x * 1000, total)
    IN  ToString(decimos \div 10) \o "." \o ToString(decimos % 10) \o "%"

Total(stats) == stats.requests_sucesso + stats.selenium_fallback + stats.falhas_totais

\* GerenciadorConexaoHibrida.obter_estatisticas: the dict it returns
ObterEstatisticas(stats) ==
    IF Total(stats) = 0
    THEN stats
    ELSE [requests_sucesso  |-> stats.requests_sucesso,
          selenium_fallback |-> stats.selenium_fallback,
          falhas_totais     |-> stats.falhas_totais,
          taxa_requests     |-> Taxa(stats.requests_sucesso, Total(stats)),
          taxa_selenium     |-> Taxa(stats.selenium_fallback, Total(stats)),
          taxa_falhas       |-> Taxa(stats.falhas_totais, Total(stats))]

\* a caller reads the statistics
ChamarObterEstatisticas ==
    /\ pc = "idle"
    /\ retStats' = ObterEstatisticas(stats_metodos)
    /\ hist' = [hist EXCEPT !.estatisticas = 1]
    /\ UNCHANGED <<pc, tentativa, selenium_inicializado, driver, criados, quits,
                   stats_metodos, retorno, chamada>>

\* ManipuladorSelenium.fechar_driver: the quit() executions after it
FecharDriver(q, d) == IF d # 0 THEN [q EXCEPT ![d] = @ + 1] ELSE q

\* GerenciadorConexaoHibrida.fechar_conexoes
FecharConexoes ==
    /\ pc = "idle"
    /\ quits' = FecharDriver(quits, driver)
    /\ hist' = [hist EXCEPT !.fechamentos = @ + 1,
                            !.fechamentosComDriver = IF driver # 0 THEN @ + 1 ELSE @]
    /\ UNCHANGED <<pc, tentativa, selenium_inicializado, driver, criados,
                   stats_metodos, retorno, retStats, chamada>>

TotalQuits == LET RECURSIVE Soma(_)
                  Soma(n) == IF n = 0 THEN 0 ELSE quits[n] + Soma(n - 1)
              IN  Soma(LimiteDrivers)

(***************************************************************************)
(* Spec: one coordinator, its public operations called in any order        *)
(***************************************************************************)
\* the orchestrator is not part of Spec: its variables stay as they are
RunParado ==
    /\ op = "nenhuma" /\ alvo = 0 /\ modo_teste = FALSE /\ rpc = "fim"
    /\ indice = 0 /\ termo = 0 /\ soup = "None" /\ metodo = ""
    /\ produtos = <<>> /\ produtos_coletados = <<>>
    /\ dados_todos_sites = [s \in 1..NumSites |-> FALSE]
    /\ saida = "nenhuma" /\ interrupcoes = 0

\* no document is being extracted in Spec and in SpecRun
ScriptAusente == [t |-> "ausente", dados |-> [forma |-> "nenhuma", products |-> <<>>]]

CobasiParado ==
    /\ pagina_atual = [script |-> ScriptAusente, elementos |-> <<>>]
    /\ medicamento_atual = "" /\ metodo_atual = ""
    /\ extraidos = <<>> /\ sem_script = <<>> /\ pelo_json = <<>>
    /\ feito = FALSE /\ feito_sem_script = FALSE /\ feito_json = FALSE

\* no price is being formatted
PrecoParado ==
    /\ formatador = "" /\ preco_entrada = [t |-> "ausente", n |-> 0, s |-> ""]
    /\ formatado = "" /\ reformatado = "" /\ fpc = 0

\* no single buscar_medicamento is being followed
BuscaParado ==
    /\ adaptador = "" /\ bpc = "fim" /\ pagina_petz = <<>> /\ pagina_petlove = <<>>
    /\ i_cartao = 0 /\ variacoes = <<>> /\ fetches_secundarios = 0 /\ origem = ""

\* session.headers holds no site header yet (configurar_sessao sets none)
HeadersIniciais ==
    [Referer |-> "<None>", Origin |-> "<None>", SecChUa |-> "<None>",
     SecChUaMobile |-> "<None>", SecChUaPlatform |-> "<None>",
     XRequestedWith |-> "<None>"]

\* the hybrid scraper of src/main.py is not running
MainParado ==
    /\ session_headers = HeadersIniciais /\ url_busca = "" /\ enviados = HeadersIniciais
    /\ hpc = "parado" /\ h_tentativa = 0 /\ h_status = "nenhum" /\ bs_n = -1
    /\ inicializado = FALSE /\ navegacoes = 0
    /\ h_produtos = [n |-> 0, metodo |-> ""] /\ h_chamadas = 0

\* no fazer_requisicao of its own is being followed
ReqParado ==
    /\ max_tentativas = 0 /\ req_pc = "parado" /\ req_tentativa = 0
    /\ gets = 0 /\ timeouts = 0 /\ resultado = "nenhum" /\ user_agent = 0
    /\ dormido = 0 /\ req_retorno = [ok |-> FALSE, motivo |-> ""]

Init == CoordInit /\ RunParado /\ CobasiParado /\ PrecoParado /\ BuscaParado /\ ReqParado /\ MainParado

Next ==
    \/ hist.iniciadas < MaxChamadas /\ IniciarChamada /\ UNCHANGED <<runVars, cobasiVars, precoVars, buscaVars, reqVars, mainVars>>
    \/ \E res \in ResultadosGet : Requisicao(res) /\ UNCHANGED <<runVars, cobasiVars, precoVars, buscaVars, reqVars, mainVars>>
    \/ \E res \in ResultadosInit : InicializarDriver(res) /\ UNCHANGED <<runVars, cobasiVars, precoVars, buscaVars, reqVars, mainVars>>
    \/ \E res \in ResultadosNav : Navegar(res) /\ UNCHANGED <<runVars, cobasiVars, precoVars, buscaVars, reqVars, mainVars>>
    \/ ChamarObterEstatisticas /\ UNCHANGED <<runVars, cobasiVars, precoVars, buscaVars, reqVars, mainVars>>
    \/ hist.fechamentos < MaxFechamentos /\ FecharConexoes /\ UNCHANGED <<runVars, cobasiVars, precoVars, buscaVars, reqVars, mainVars>>

vars == <<coordVars, runVars, cobasiVars, precoVars, buscaVars, reqVars, mainVars>>

Spec == Init /\ [][Next]_vars

(***************************************************************************)
(* ScraperBase.executar_scraping_completo / buscar_medicamento and         *)
(* GerenciadorScrapingMedicamentos.executar_todos_scrapers /               *)
(* executar_site_especifico                                                *)
(*                                                                         *)
(* rpc: "inicio"     the operation is entered                              *)
(*      "preparar"   executar_scraping_completo: preparar_site             *)
(*      "buscar"     top of the per-term loop: buscar_medicamento begins   *)
(*      "fetch"      obter_soup_pagina is running (pc steps)               *)
(*      "extrair"    extrair_produtos_pagina                               *)
(*      "pausa"      _pausa_entre_buscas                                   *)
(*      "salvar"     salvar_excel of the site's records                    *)
(*      "pausa_site" time.sleep(2) between sites                           *)
(*      "relatorio"  salvar_relatorio_consolidado                          *)
(*      "fechar"     fechar_conexoes                                       *)
(*      "exibir"     _exibir_relatorio_final                               *)
(*      "fim"        the operation has returned or raised                  *)
(***************************************************************************)
Sites == 1..NumSites

\* the record k of a term, as a value that names where it came from
Registro(site, t, k) == <<site, t, k>>

RunInit ==
    /\ op \in {"todos", "site"}
    /\ alvo \in (IF op = "site" THEN 0..NumSites ELSE {0})
    /\ modo_teste \in BOOLEAN
    /\ rpc = "inicio"
    /\ indice = 0 /\ termo = 0 /\ soup = "None" /\ metodo = ""
    /\ produtos = <<>> /\ produtos_coletados = <<>>
    /\ dados_todos_sites = [s \in Sites |-> FALSE]
    /\ saida = "nenhuma"
    /\ interrupcoes = 0

\* any(dados_todos_sites.values()): some site's list is not empty
HaDados(dados) == \E s \in Sites : dados[s]

\* executar_todos_scrapers after its loop: where it continues
DepoisDoLaco(dados) == IF HaDados(dados) THEN "relatorio" ELSE "fechar"

\* the operation is entered; executar_site_especifico looks the scraper up
Comecar ==
    /\ rpc = "inicio"
    /\ IF op = "site" /\ alvo = 0
       THEN /\ rpc' = "fim" /\ saida' = "normal" /\ UNCHANGED indice
       ELSE /\ rpc' = "preparar"
            /\ indice' = IF op = "site" THEN alvo ELSE 1
            /\ UNCHANGED saida
    /\ UNCHANGED <<op, alvo, modo_teste, termo, soup, metodo, produtos, produtos_coletados,
                   dados_todos_sites, interrupcoes>>
    /\ UNCHANGED coordVars

\* executar_scraping_completo up to its loop
PrepararSite ==
    /\ rpc = "preparar"
    /\ rpc' = "buscar"
    /\ termo' = 1
    /\ produtos' = <<>>
    /\ produtos_coletados' = <<>>
    /\ UNCHANGED <<op, alvo, modo_teste, indice, soup, metodo, dados_todos_sites,
                   saida, interrupcoes>>
    /\ UNCHANGED coordVars

\* buscar_medicamento calls obter_soup_pagina
BuscarMedicamento ==
    /\ rpc = "buscar"
    /\ rpc' = "fetch"
    /\ produtos' = <<>>
    /\ IniciarChamada
    /\ UNCHANGED <<op, alvo, modo_teste, indice, termo, soup, metodo, produtos_coletados,
                   dados_todos_sites, saida, interrupcoes>>

\* executar_scraping_completo returns coletados to its caller, which goes on
\* to save them (a site without records is not saved)
FimDoSite(coletados) ==
    /\ produtos_coletados' = coletados
    /\ dados_todos_sites' = IF op = "todos"
                            THEN [dados_todos_sites EXCEPT ![indice] = (coletados # <<>>)]
                            ELSE dados_todos_sites
    /\ rpc' = IF coletados # <<>> THEN "salvar"
              ELSE IF op = "site" THEN "fechar"
              ELSE IF indice < NumSites THEN "pausa_site"
              ELSE DepoisDoLaco(dados_todos_sites')
    /\ soup' = "None" /\ metodo' = "" /\ produtos' = <<>>
    /\ UNCHANGED <<indice, termo>>

\* a term without records empties the list collected so far
ProximoTermoDescarta(prods) ==
    LET coletados == IF prods = <<>> THEN <<>> ELSE produtos_coletados \o prods IN
    IF termo < NumTermos
    THEN /\ produtos_coletados' = coletados
         /\ termo' = termo + 1
         /\ rpc' = "buscar"
         /\ soup' = "None" /\ metodo' = "" /\ produtos' = <<>>
         /\ UNCHANGED <<indice, dados_todos_sites>>
    ELSE FimDoSite(coletados)

\* the per-term loop goes on after buscar_medicamento returned prods
ProximoTermo(prods) ==
    LET coletados == produtos_coletados \o prods IN
    IF termo < NumTermos
    THEN /\ produtos_coletados' = coletados
         /\ termo' = termo + 1
         /\ rpc' = "buscar"
         /\ soup' = "None" /\ metodo' = "" /\ produtos' = <<>>
         /\ UNCHANGED <<indice, dados_todos_sites>>
    ELSE FimDoSite(coletados)

\* obter_soup_pagina has returned `soup, metodo`: `if not soup: return produtos`
AposFetch ==
    /\ rpc = "fetch" /\ pc = "idle"
    /\ IF retorno.conteudo = "None"
       THEN ProximoTermo(<<>>)
       ELSE /\ rpc' = "extrair"
            /\ soup' = retorno.conteudo
            /\ metodo' = retorno.metodo
            /\ UNCHANGED <<indice, termo, produtos, produtos_coletados,
                           dados_todos_sites>>
    /\ UNCHANGED <<op, alvo, modo_teste, saida, interrupcoes>>
    /\ chamada' = ChamadaNova
    /\ retorno' = RetornoNenhum
    /\ UNCHANGED <<pc, tentativa, selenium_inicializado, driver, criados, quits,
                   stats_metodos, retStats, hist>>

\* the first record only, whatever the mode
LimitarSempre(teste, prods) == IF prods # <<>> THEN SubSeq(prods, 1, 1) ELSE prods

\* `if self.modo_teste and produtos: produtos = produtos[:1]`
Limitar(teste, prods) == IF teste /\ prods # <<>> THEN SubSeq(prods, 1, 1) ELSE prods

\* extrair_produtos_pagina returns n records or raises
Extrair(n, erro) ==
    /\ rpc = "extrair"
    /\ IF erro
       THEN ProximoTermo(<<>>)
       ELSE /\ produtos' = Limitar(modo_teste, [k \in 1..n |-> Registro(indice, termo, k)])
            /\ rpc' = "pausa"
            /\ UNCHANGED <<indice, termo, soup, metodo, produtos_coletados,
                           dados_todos_sites>>
    /\ UNCHANGED <<op, alvo, modo_teste, saida, interrupcoes>>
    /\ UNCHANGED coordVars

\* _pausa_entre_buscas, then buscar_medicamento returns produtos
PausaEntreBuscas ==
    /\ rpc = "pausa"
    /\ ProximoTermo(produtos)
    /\ UNCHANGED <<op, alvo, modo_teste, saida, interrupcoes>>
    /\ UNCHANGED coordVars

\* gerenciador_arquivos.salvar_excel (it returns False on any Exception)
SalvarExcel(ok) ==
    /\ rpc = "salvar"
    /\ rpc' = IF op = "site" THEN "fechar"
              ELSE IF indice < NumSites THEN "pausa_site"
              ELSE DepoisDoLaco(dados_todos_sites)
    /\ produtos_coletados' = <<>>
    /\ UNCHANGED <<op, alvo, modo_teste, indice, termo, soup, metodo, produtos,
                   dados_todos_sites, saida, interrupcoes>>
    /\ UNCHANGED coordVars

\* time.sleep(2), then the last scraper
PausaEntreSitesSalta ==
    /\ rpc = "pausa_site"
    /\ rpc' = "preparar"
    /\ indice' = NumSites
    /\ UNCHANGED <<op, alvo, modo_teste, termo, soup, metodo, produtos, produtos_coletados,
                   dados_todos_sites, saida, interrupcoes>>
    /\ UNCHANGED coordVars

\* time.sleep(2), then the next scraper
PausaEntreSites ==
    /\ rpc = "pausa_site"
    /\ rpc' = "preparar"
    /\ indice' = indice + 1
    /\ UNCHANGED <<op, alvo, modo_teste, termo, soup, metodo, produtos, produtos_coletados,
                   dados_todos_sites, saida, interrupcoes>>
    /\ UNCHANGED coordVars

\* salvar_relatorio_consolidado (it returns False on any Exception)
RelatorioConsolidado ==
    /\ rpc = "relatorio"
    /\ rpc' = "fechar"
    /\ UNCHANGED <<op, alvo, modo_teste, indice, termo, soup, metodo, produtos, produtos_coletados,
                   dados_todos_sites, saida, interrupcoes>>
    /\ UNCHANGED coordVars

\* self.gerenciador_conexao.fechar_conexoes()
Fechar ==
    /\ rpc = "fechar"
    /\ rpc' = "exibir"
    /\ FecharConexoes
    /\ UNCHANGED <<op, alvo, modo_teste, indice, termo, soup, metodo, produtos, produtos_coletados,
                   dados_todos_sites, saida, interrupcoes>>

\* _exibir_relatorio_final reads obter_estatisticas; the operation returns
ExibirRelatorioFinal ==
    /\ rpc = "exibir"
    /\ rpc' = "fim"
    /\ saida' = "normal"
    /\ ChamarObterEstatisticas
    /\ UNCHANGED <<op, alvo, modo_teste, indice, termo, soup, metodo, produtos, produtos_coletados,
                   dados_todos_sites, interrupcoes>>

\* a KeyboardInterrupt leaves obter_conteudo_pagina: no handler of the
\* coordinator catches it. One that arrives inside inicializar_driver may
\* find webdriver.Chrome already returned (criou).
AbortarChamada(criou) ==
    /\ pc' = "idle"
    /\ chamada' = [chamada EXCEPT !.fast = IF @ = "nenhuma" THEN "abortada" ELSE @]
    /\ IF pc = "init"
       THEN /\ driver' = IF criou THEN criados + 1 ELSE 0
            /\ criados' = IF criou THEN criados + 1 ELSE criados
       ELSE /\ ~criou
            /\ UNCHANGED <<driver, criados>>
    /\ tentativa' = 0
    /\ UNCHANGED <<selenium_inicializado, quits, stats_metodos, retorno, retStats, hist>>

NoLacoDeTermos == rpc \in {"buscar", "fetch", "extrair", "pausa"}

\* A KeyboardInterrupt arrives. Inside the per-term loop the handler of
\* executar_scraping_completo breaks the loop and the site's records are
\* returned; elsewhere inside the per-site loop of executar_todos_scrapers
\* its handler breaks that loop; anywhere else the exception leaves the
\* operation.
Interromper(criou) ==
    /\ rpc \notin {"inicio", "fim"}
    /\ interrupcoes < MaxInterrupcoes
    /\ interrupcoes' = interrupcoes + 1
    /\ IF rpc = "fetch" /\ pc # "idle"
       THEN AbortarChamada(criou)
       ELSE ~criou /\ UNCHANGED coordVars
    /\ IF NoLacoDeTermos
       THEN /\ FimDoSite(produtos_coletados)
            /\ UNCHANGED saida
       ELSE IF op = "todos" /\ rpc \in {"preparar", "salvar", "pausa_site"}
       THEN /\ rpc' = DepoisDoLaco(dados_todos_sites)
            /\ produtos_coletados' = <<>>
            /\ UNCHANGED <<indice, termo, soup, metodo, produtos, dados_todos_sites, saida>>
       ELSE /\ rpc' = "fim"
            /\ saida' = "KeyboardInterrupt"
            /\ produtos_coletados' = <<>>
            /\ UNCHANGED <<indice, termo, soup, metodo, produtos, dados_todos_sites>>
    /\ UNCHANGED <<op, alvo, modo_teste>>

\* the adapters whose _formatar_preco ends in a bare `except:` (Cobasi, Petz)
SitesComExceptNu == {1, 3}

\* A KeyboardInterrupt arrives while _formatar_preco formats the price of a
\* record: its bare `except:` catches it and returns "N/A"; the extraction
\* goes on and returns its n records as if nothing had arrived.
ExtrairEngolindoInterrupcao(n) ==
    /\ rpc = "extrair"
    /\ indice \in SitesComExceptNu
    /\ n >= 1
    /\ interrupcoes < MaxInterrupcoes
    /\ interrupcoes' = interrupcoes + 1
    /\ produtos' = Limitar(modo_teste, [k \in 1..n |-> Registro(indice, termo, k)])
    /\ rpc' = "pausa"
    /\ UNCHANGED <<op, alvo, modo_teste, indice, termo, soup, metodo, produtos_coletados,
                   dados_todos_sites, saida>>
    /\ UNCHANGED coordVars

(***************************************************************************)
(* SpecRun: one operation of GerenciadorScrapingMedicamentos               *)
(***************************************************************************)
InitRun == CoordInit /\ RunInit /\ CobasiParado /\ PrecoParado /\ BuscaParado /\ ReqParado /\ MainParado

PassoFetch == rpc = "fetch" /\ pc # "idle"

\* the caller of obter_soup_pagina reads only the document and the method:
\* one result per branch of fazer_requisicao is enough here
ResultadosGetRun == {"200", "403", "Timeout"}

NextRun ==
    \/ Comecar /\ UNCHANGED <<cobasiVars, precoVars, buscaVars, reqVars, mainVars>>
    \/ PrepararSite /\ UNCHANGED <<cobasiVars, precoVars, buscaVars, reqVars, mainVars>>
    \/ BuscarMedicamento /\ UNCHANGED <<cobasiVars, precoVars, buscaVars, reqVars, mainVars>>
    \/ \E res \in ResultadosGetRun : PassoFetch /\ Requisicao(res) /\ UNCHANGED <<runVars, cobasiVars, precoVars, buscaVars, reqVars, mainVars>>
    \/ \E res \in ResultadosInit : PassoFetch /\ InicializarDriver(res) /\ UNCHANGED <<runVars, cobasiVars, precoVars, buscaVars, reqVars, mainVars>>
    \/ \E res \in ResultadosNav : PassoFetch /\ Navegar(res) /\ UNCHANGED <<runVars, cobasiVars, precoVars, buscaVars, reqVars, mainVars>>
    \/ AposFetch /\ UNCHANGED <<cobasiVars, precoVars, buscaVars, reqVars, mainVars>>
    \/ \E n \in 0..MaxProdutos, erro \in BOOLEAN : Extrair(n, erro) /\ UNCHANGED <<cobasiVars, precoVars, buscaVars, reqVars, mainVars>>
    \/ PausaEntreBuscas /\ UNCHANGED <<cobasiVars, precoVars, buscaVars, reqVars, mainVars>>
    \/ \E ok \in BOOLEAN : SalvarExcel(ok) /\ UNCHANGED <<cobasiVars, precoVars, buscaVars, reqVars, mainVars>>
    \/ PausaEntreSites /\ UNCHANGED <<cobasiVars, precoVars, buscaVars, reqVars, mainVars>>
    \/ RelatorioConsolidado /\ UNCHANGED <<cobasiVars, precoVars, buscaVars, reqVars, mainVars>>
    \/ Fechar /\ UNCHANGED <<cobasiVars, precoVars, buscaVars, reqVars, mainVars>>
    \/ ExibirRelatorioFinal /\ UNCHANGED <<cobasiVars, precoVars, buscaVars, reqVars, mainVars>>
    \/ \E criou \in BOOLEAN : Interromper(criou) /\ UNCHANGED <<cobasiVars, precoVars, buscaVars, reqVars, mainVars>>
    \/ \E n \in 1..MaxProdutos : ExtrairEngolindoInterrupcao(n) /\ UNCHANGED <<cobasiVars, precoVars, buscaVars, reqVars, mainVars>>

SpecRun == InitRun /\ [][NextRun]_vars

(***************************************************************************)
(* SpecSite: one executar_site_especifico, that is one                     *)
(* executar_scraping_completo of one scraper and what follows it           *)
(***************************************************************************)
InitSite == InitRun /\ op = "site"

NextSite ==
    \/ Comecar /\ UNCHANGED <<cobasiVars, precoVars, buscaVars, reqVars, mainVars>>
    \/ PrepararSite /\ UNCHANGED <<cobasiVars, precoVars, buscaVars, reqVars, mainVars>>
    \/ BuscarMedicamento /\ UNCHANGED <<cobasiVars, precoVars, buscaVars, reqVars, mainVars>>
    \/ \E res \in ResultadosGetRun : PassoFetch /\ Requisicao(res) /\ UNCHANGED <<runVars, cobasiVars, precoVars, buscaVars, reqVars, mainVars>>
    \/ \E res \in ResultadosInit : PassoFetch /\ InicializarDriver(res) /\ UNCHANGED <<runVars, cobasiVars, precoVars, buscaVars, reqVars, mainVars>>
    \/ \E res \in ResultadosNav : PassoFetch /\ Navegar(res) /\ UNCHANGED <<runVars, cobasiVars, precoVars, buscaVars, reqVars, mainVars>>
    \/ AposFetch /\ UNCHANGED <<cobasiVars, precoVars, buscaVars, reqVars, mainVars>>
    \/ \E n \in 0..MaxProdutos, erro \in BOOLEAN : Extrair(n, erro) /\ UNCHANGED <<cobasiVars, precoVars, buscaVars, reqVars, mainVars>>
    \/ PausaEntreBuscas /\ UNCHANGED <<cobasiVars, precoVars, buscaVars, reqVars, mainVars>>
    \/ \E ok \in BOOLEAN : SalvarExcel(ok) /\ UNCHANGED <<cobasiVars, precoVars, buscaVars, reqVars, mainVars>>
    \/ Fechar /\ UNCHANGED <<cobasiVars, precoVars, buscaVars, reqVars, mainVars>>
    \/ ExibirRelatorioFinal /\ UNCHANGED <<cobasiVars, precoVars, buscaVars, reqVars, mainVars>>
    \/ \E criou \in BOOLEAN : Interromper(criou) /\ UNCHANGED <<cobasiVars, precoVars, buscaVars, reqVars, mainVars>>
    \/ \E n \in 1..MaxProdutos : ExtrairEngolindoInterrupcao(n) /\ UNCHANGED <<cobasiVars, precoVars, buscaVars, reqVars, mainVars>>

SpecSite == InitSite /\ [][NextSite]_vars

(***************************************************************************)
(* SpecReq: one ManipuladorRequests.fazer_requisicao(url, max_tentativas)  *)
(***************************************************************************)
\* the call is entered
ReqInit ==
    /\ max_tentativas \in 0..MaxTentativas
    /\ req_pc = "laco" /\ req_tentativa = 0
    /\ gets = 0 /\ timeouts = 0 /\ resultado = "nenhum" /\ user_agent = 0
    /\ dormido = 0 /\ req_retorno = [ok |-> FALSE, motivo |-> ""]

\* one iteration of the loop in which a connection error counts as a timeout
ReqPassoInsistente(res, ua) ==
    /\ req_pc = "laco"
    /\ req_tentativa < max_tentativas
    /\ user_agent' = ua
    /\ dormido' = IF req_tentativa > 0 THEN dormido + 1 + req_tentativa ELSE dormido
    /\ gets' = gets + 1
    /\ timeouts' = IF res = "Timeout" THEN timeouts + 1 ELSE timeouts
    /\ resultado' = res
    /\ LET r == FazerRequisicaoPasso(req_tentativa,
                    IF res = "ConnectionError" THEN "Timeout" ELSE res, max_tentativas) IN
       IF r.fim
       THEN /\ req_pc' = "fim"
            /\ req_retorno' = [ok |-> r.ok, motivo |-> r.motivo]
            /\ UNCHANGED req_tentativa
       ELSE /\ req_tentativa' = req_tentativa + 1
            /\ UNCHANGED <<req_pc, req_retorno>>
    /\ UNCHANGED max_tentativas

\* one iteration of `for tentativa in range(max_tentativas)`: the User-Agent
\* is drawn, the delay of a retry is slept, session.get answers res
ReqPasso(res, ua) ==
    /\ req_pc = "laco"
    /\ req_tentativa < max_tentativas
    /\ user_agent' = ua
    /\ dormido' = IF req_tentativa > 0 THEN dormido + 1 + req_tentativa ELSE dormido
    /\ gets' = gets + 1
    /\ timeouts' = IF res = "Timeout" THEN timeouts + 1 ELSE timeouts
    /\ resultado' = res
    /\ LET r == FazerRequisicaoPasso(req_tentativa, res, max_tentativas) IN
       IF r.fim
       THEN /\ req_pc' = "fim"
            /\ req_retorno' = [ok |-> r.ok, motivo |-> r.motivo]
            /\ UNCHANGED req_tentativa
       ELSE /\ req_tentativa' = req_tentativa + 1
            /\ UNCHANGED <<req_pc, req_retorno>>
    /\ UNCHANGED max_tentativas

\* the loop ends without a return: `return None, "max_tentativas_excedidas"`
ReqEsgotado ==
    /\ req_pc = "laco"
    /\ req_tentativa >= max_tentativas
    /\ req_pc' = "fim"
    /\ req_retorno' = [ok |-> FALSE, motivo |-> "max_tentativas_excedidas"]
    /\ UNCHANGED <<max_tentativas, req_tentativa, gets, timeouts, resultado, user_agent,
                   dormido>>

InitReq == CoordInit /\ RunParado /\ CobasiParado /\ PrecoParado /\ BuscaParado /\ ReqInit /\ MainParado

NextReq ==
    \/ \E res \in ResultadosGet, ua \in 1..NumAgentes :
          ReqPasso(res, ua) /\ UNCHANGED <<coordVars, runVars, cobasiVars, precoVars, buscaVars, mainVars>>
    \/ ReqEsgotado /\ UNCHANGED <<coordVars, runVars, cobasiVars, precoVars, buscaVars, mainVars>>

SpecReq == InitReq /\ [][NextReq]_vars

\* the call is never left waiting: the loop runs whenever it can
SpecReqJusto == SpecReq /\ WF_vars(NextReq)

(***************************************************************************)
(* SpecHib: src/main.py, fazer_scraping_medicamento calls of the three     *)
(* hybrid scrapers on the shared ManipuladorRequests and ManipuladorSelenium *)
(***************************************************************************)
\* `sub in url`
Contem(url, sub) ==
    \E i \in 1..(Len(url) - Len(sub) + 1) : SubSeq(url, i, i + Len(sub) - 1) = sub

\* _construir_url_busca of ScraperHibridoCobasi, Petlove and Petz
UrlsDeBusca ==
    {"https://www.cobasi.com.br/pesquisa?terms=x",
     "https://www.petlove.com.br/busca?q=x",
     "https://www.petz.com.br/busca?q=x"}

\* ManipuladorRequests.adicionar_headers_especificos: session.headers.update
AdicionarHeadersEspecificos(headers, url) ==
    IF Contem(url, "petlove.com.br")
    THEN [headers EXCEPT !.Referer = "https://www.petlove.com.br/",
                         !.Origin = "https://www.petlove.com.br",
                         !.SecChUa = "\"Not_A Brand\";v=\"8\", \"Chromium\";v=\"120\"",
                         !.SecChUaMobile = "?0",
                         !.SecChUaPlatform = "\"Windows\""]
    ELSE IF Contem(url, "petz.com.br")
    THEN [headers EXCEPT !.Referer = "https://www.petz.com.br/",
                         !.Origin = "https://www.petz.com.br",
                         !.XRequestedWith = "XMLHttpRequest"]
    ELSE IF Contem(url, "cobasi.com.br")
    THEN [headers EXCEPT !.Referer = "https://www.cobasi.com.br/",
                         !.Origin = "https://www.cobasi.com.br"]
    ELSE headers

\* GerenciadorScraperHibrido.__init__: fresh handlers, no call yet
HibInit ==
    /\ session_headers = HeadersIniciais /\ url_busca = "" /\ enviados = HeadersIniciais
    /\ hpc = "inicio" /\ h_tentativa = 0 /\ h_status = "nenhum" /\ bs_n = -1
    /\ inicializado = FALSE /\ navegacoes = 0
    /\ h_produtos = [n |-> 0, metodo |-> ""] /\ h_chamadas = 0

\* fazer_scraping_medicamento of one scraper is entered
HibComecar(url) ==
    /\ hpc \in {"inicio", "fim"}
    /\ h_chamadas < MaxChamadas
    /\ h_chamadas' = h_chamadas + 1
    /\ url_busca' = url
    /\ hpc' = "requests"
    /\ h_tentativa' = 0 /\ h_status' = "nenhum" /\ bs_n' = -1 /\ navegacoes' = 0
    /\ h_produtos' = [n |-> 0, metodo |-> ""]
    /\ UNCHANGED <<session_headers, enviados, inicializado>>

\* one iteration of the loop of fazer_requisicao: the site headers are
\* added to the session, session.get sends them; only a 200 returns the
\* response, every other outcome goes to the next attempt, and after the
\* last one the call returns None
HibGet(res) ==
    /\ hpc = "requests"
    /\ h_tentativa < MaxTentativasMain
    /\ session_headers' = AdicionarHeadersEspecificos(session_headers, url_busca)
    /\ enviados' = session_headers'
    /\ h_status' = IF res \in {"200", "403", "429", "500"} THEN res ELSE "nenhum"
    /\ IF res = "200"
       THEN hpc' = "extrair_bs" /\ UNCHANGED h_tentativa
       ELSE /\ h_tentativa' = h_tentativa + 1
            /\ hpc' = IF h_tentativa + 1 = MaxTentativasMain THEN "selenium" ELSE "requests"
    /\ UNCHANGED <<url_busca, bs_n, inicializado, navegacoes, h_produtos, h_chamadas>>

\* BeautifulSoup(response.content) and extrair_com_beautifulsoup: n products
\* or an exception; `if produtos:` returns them, anything else falls through
\* to the Selenium method
HibExtrairBS(n, erro) ==
    /\ hpc = "extrair_bs"
    /\ bs_n' = IF erro THEN -1 ELSE n
    /\ IF ~erro /\ n > 0
       THEN /\ hpc' = "fim"
            /\ h_produtos' = [n |-> n, metodo |-> "beautifulsoup"]
       ELSE /\ hpc' = "selenium"
            /\ UNCHANGED h_produtos
    /\ UNCHANGED <<session_headers, url_busca, enviados, h_tentativa, h_status,
                   inicializado, navegacoes, h_chamadas>>

\* selenium_handler.navegar_para_url: configurar_driver on first use, then
\* up to three driver.get; navegou = one of them succeeded
HibNavegar(configurou, navegou) ==
    /\ hpc = "selenium"
    /\ navegacoes' = navegacoes + 1
    /\ inicializado' = (inicializado \/ configurou)
    /\ hpc' = IF inicializado' /\ navegou THEN "extrair_selenium" ELSE "fim"
    /\ UNCHANGED <<session_headers, url_busca, enviados, h_tentativa, h_status, bs_n,
                   h_produtos, h_chamadas>>

\* obter_html and extrair_com_selenium: n products, no html, or an exception
HibExtrairSelenium(n, falhou) ==
    /\ hpc = "extrair_selenium"
    /\ hpc' = "fim"
    /\ h_produtos' = IF falhou \/ n = 0 THEN [n |-> 0, metodo |-> ""]
                     ELSE [n |-> n, metodo |-> "selenium_fallback"]
    /\ UNCHANGED <<session_headers, url_busca, enviados, h_tentativa, h_status, bs_n,
                   inicializado, navegacoes, h_chamadas>>

InitHib == CoordInit /\ RunParado /\ CobasiParado /\ PrecoParado /\ BuscaParado /\ ReqParado /\ HibInit

NextHib ==
    \/ \E url \in UrlsDeBusca :
          HibComecar(url) /\ UNCHANGED <<coordVars, runVars, cobasiVars, precoVars, buscaVars, reqVars>>
    \/ \E res \in ResultadosGet :
          HibGet(res) /\ UNCHANGED <<coordVars, runVars, cobasiVars, precoVars, buscaVars, reqVars>>
    \/ \E n \in 0..MaxProdutos, erro \in BOOLEAN :
          HibExtrairBS(n, erro) /\ UNCHANGED <<coordVars, runVars, cobasiVars, precoVars, buscaVars, reqVars>>
    \/ \E configurou \in BOOLEAN, navegou \in BOOLEAN :
          HibNavegar(configurou, navegou) /\ UNCHANGED <<coordVars, runVars, cobasiVars, precoVars, buscaVars, reqVars>>
    \/ \E n \in 0..MaxProdutos, falhou \in BOOLEAN :
          HibExtrairSelenium(n, falhou) /\ UNCHANGED <<coordVars, runVars, cobasiVars, precoVars, buscaVars, reqVars>>

SpecHib == InitHib /\ [][NextHib]_vars

(***************************************************************************)
(* JSON values of a page's payload and the text of its elements            *)
(*                                                                         *)
(* A value is [t, n, s]: t is "ausente" (the key is missing), "null",      *)
(* "int" (n is the number), "float" (n is the number in thousandths) or    *)
(* "str" (s is the text).                                                  *)
(***************************************************************************)
Aus == [t |-> "ausente", n |-> 0, s |-> ""]
Nul == [t |-> "null", n |-> 0, s |-> ""]
Inteiro(n) == [t |-> "int", n |-> n, s |-> ""]
Decimal(milesimos) == [t |-> "float", n |-> milesimos, s |-> ""]
Texto(s) == [t |-> "str", n |-> 0, s |-> s]

\* Python's None in a field of InfoProduto
Nulo == "<None>"

EhNumero(v) == v.t \in {"int", "float"}

\* dict.get(chave, 0): the default stands for a missing key only
GetOuZero(v) == IF v.t = "ausente" THEN Inteiro(0) ELSE v

\* str.strip()
RECURSIVE LStrip(_)
LStrip(s) == IF Len(s) > 0 /\ SubSeq(s, 1, 1) = " "
             THEN LStrip(SubSeq(s, 2, Len(s))) ELSE s
RECURSIVE RStrip(_)
RStrip(s) == IF Len(s) > 0 /\ SubSeq(s, Len(s), Len(s)) = " "
             THEN RStrip(SubSeq(s, 1, Len(s) - 1)) ELSE s
Strip(s) == RStrip(LStrip(s))

\* bool(v) of a JSON value
Truthy(v) ==
    CASE v.t \in {"ausente", "null"} -> FALSE
      [] EhNumero(v) -> v.n # 0
      [] OTHER -> v.s # ""

DoisDigitos(n) == IF n < 10 THEN "0" \o ToString(n) ELSE ToString(n)

\* f"{preco:.2f}" of a number > 0 (a float is rounded to the nearest cent;
\* the price sets hold no float that lies halfway between two cents unless
\* it is exact in binary, where the tie goes to the even cent)
DuasCasas(v) ==
    LET centavos == IF v.t = "int" THEN v.n * 100 ELSE Arredondar(v.n, 10)
    IN  ToString(centavos \div 100) \o "." \o DoisDigitos(centavos % 100)

\* _formatar_preco returning a text as it came
FormatarPrecoSemAparar(preco) ==
    IF EhNumero(preco) /\ preco.n > 0 THEN "R$ " \o DuasCasas(preco)
    ELSE IF preco.t = "str" /\ Strip(preco.s) # "" THEN preco.s
    ELSE "Consultar"

\* ScraperCobasi._formatar_preco
FormatarPreco(preco) ==
    IF EhNumero(preco) /\ preco.n > 0 THEN "R$ " \o DuasCasas(preco)
    ELSE IF preco.t = "str" /\ Strip(preco.s) # "" THEN Strip(preco.s)
    ELSE "Consultar"

\* the three digits of the thousandths without trailing zeros
Fracao(m) ==
    IF m % 100 = 0 THEN ToString(m \div 100)
    ELSE IF m % 10 = 0 THEN DoisDigitos(m \div 10)
    ELSE (IF m < 100 THEN "0" ELSE "") \o DoisDigitos(m)

\* str(x) of a number
NumeroStr(v) ==
    IF v.t = "int" THEN ToString(v.n)
    ELSE ToString(v.n \div 1000) \o "." \o Fracao(v.n % 1000)

\* dict.get(chave, padrao) of a text field
TextoOu(v, padrao) ==
    CASE v.t = "ausente" -> padrao
      [] v.t = "null" -> Nulo
      [] v.t = "str" -> v.s
      [] OTHER -> NumeroStr(v)

\* str(dict.get(chave, padrao))
StrOu(v, padrao) == IF v.t = "null" THEN "None" ELSE TextoOu(v, padrao)

\* GerenciadorDados.obter_info_medicamento(medicamento).categoria
ObterCategoria(medicamento) ==
    CASE medicamento = "Bravecto" -> "Antipulgas e Carrapatos"
      [] medicamento = "Drontal" -> "Vermífugo"
      [] OTHER -> "N/A"

(***************************************************************************)
(* ScraperCobasi                                                           *)
(***************************************************************************)
UrlBaseCobasi == "cobasi.com.br"

\* InfoProduto(...) with the defaults of the dataclass
InfoProduto(categoria, marca, produto, quantidade, preco, metodo_coleta) ==
    [categoria |-> categoria, marca |-> marca, produto |-> produto,
     quantidade |-> quantidade, preco |-> preco, site |-> UrlBaseCobasi,
     data_coleta |-> "hoje", preco_antigo |-> Nulo, desconto |-> Nulo,
     disponibilidade |-> Nulo, produto_id |-> Nulo, sku_id |-> Nulo,
     url |-> Nulo, metodo |-> metodo_coleta]

\* the body of `for sku in skus`: the records one SKU adds (none when it
\* is skipped or when building its record raises)
ProcessarSku(nome_produto, produto_id, sku, medicamento, metodo_usado) ==
    LET desconto_percent == GetOuZero(sku.discountPercent)
        preco_antigo == GetOuZero(sku.oldPrice)
        disponibilidade == TextoOu(sku.available, "UNKNOWN")
    IN  IF disponibilidade # "AVAILABLE" THEN <<>>
        \* `desconto_percent > 0` raises TypeError unless it is a number
        ELSE IF ~EhNumero(desconto_percent) THEN <<>>
        ELSE << [InfoProduto(ObterCategoria(medicamento), medicamento, nome_produto,
                             TextoOu(sku.name, "N/A"),
                             FormatarPreco(GetOuZero(sku.price)),
                             "json_" \o metodo_usado)
                 EXCEPT !.preco_antigo = IF Truthy(preco_antigo)
                                         THEN FormatarPreco(preco_antigo) ELSE Nulo,
                        !.desconto = IF desconto_percent.n > 0
                                     THEN NumeroStr(desconto_percent) \o "%" ELSE Nulo,
                        !.disponibilidade = disponibilidade,
                        !.produto_id = produto_id,
                        !.sku_id = StrOu(sku.sku, "N/A")] >>

RECURSIVE ProcessarSkus(_, _, _, _, _)
ProcessarSkus(nome_produto, produto_id, skus, medicamento, metodo_usado) ==
    IF skus = <<>> THEN <<>>
    ELSE ProcessarSku(nome_produto, produto_id, Head(skus), medicamento, metodo_usado)
         \o ProcessarSkus(nome_produto, produto_id, Tail(skus), medicamento, metodo_usado)

\* the product without SKUs: one record from the product-level price
ProdutoUnicoSemMetodo(produto_json, medicamento, metodo_usado) ==
    [InfoProduto(ObterCategoria(medicamento), medicamento,
                 TextoOu(produto_json.name, "N/A"), "Tamanho Único",
                 FormatarPreco(GetOuZero(produto_json.price)), "json")
     EXCEPT !.produto_id = StrOu(produto_json.id, "N/A")]

ProdutoUnico(produto_json, medicamento, metodo_usado) ==
    [InfoProduto(ObterCategoria(medicamento), medicamento,
                 TextoOu(produto_json.name, "N/A"), "Tamanho Único",
                 FormatarPreco(GetOuZero(produto_json.price)),
                 "json_" \o metodo_usado)
     EXCEPT !.produto_id = StrOu(produto_json.id, "N/A")]

\* the body of `for produto_json in produtos_json`
ProcessarProdutoJson(produto_json, medicamento, metodo_usado) ==
    IF produto_json.skus = <<>>
    THEN << ProdutoUnico(produto_json, medicamento, metodo_usado) >>
    ELSE ProcessarSkus(TextoOu(produto_json.name, "N/A"),
                       StrOu(produto_json.id, "N/A"),
                       produto_json.skus, medicamento, metodo_usado)

RECURSIVE ProcessarProdutosJson(_, _, _)
ProcessarProdutosJson(produtos_json, medicamento, metodo_usado) ==
    IF produtos_json = <<>> THEN <<>>
    ELSE ProcessarProdutoJson(Head(produtos_json), medicamento, metodo_usado)
         \o ProcessarProdutosJson(Tail(produtos_json), medicamento, metodo_usado)

\* json.loads(conteudo_json): the script text either parses to its data or
\* raises json.JSONDecodeError
JsonLoads(script) ==
    IF script.t = "invalido"
    THEN [ok |-> FALSE, dados |-> [forma |-> "nenhuma", products |-> <<>>]]
    ELSE [ok |-> TRUE, dados |-> script.dados]

\* ScraperCobasi._extrair_do_json: every exception is caught inside
ExtrairDoJson(script, medicamento, metodo_usado) ==
    LET lido == JsonLoads(script) IN
    IF ~lido.ok THEN <<>>
    \* a payload that is not an object has no .get: AttributeError, caught
    ELSE IF lido.dados.forma # "objeto" THEN <<>>
    \* props.pageProps.searchResult.products missing or empty
    ELSE IF lido.dados.products = <<>> THEN <<>>
    ELSE ProcessarProdutosJson(lido.dados.products, medicamento, metodo_usado)

\* str.startswith('http')
ComecaComHttp(s) == Len(s) >= 4 /\ SubSeq(s, 1, 4) = "http"

\* one <a data-testid="product-item-v4"> of the page
ProcessarElemento(el, medicamento, metodo_usado) ==
    LET href == TextoOu(el.href, "N/A")
        url == IF href # "N/A" /\ ~ComecaComHttp(href)
               THEN "https://www.cobasi.com.br" \o href ELSE href
    IN  [InfoProduto(ObterCategoria(medicamento), medicamento,
                     IF el.nome.t = "str" THEN Strip(el.nome.s) ELSE "N/A",
                     "Tamanho Único",
                     IF el.preco.t = "str" THEN Strip(el.preco.s) ELSE "N/A",
                     "html_" \o metodo_usado)
         EXCEPT !.url = url]

\* ScraperCobasi._extrair_do_html
ExtrairDoHtml(pagina, medicamento, metodo_usado) ==
    [i \in 1..Len(pagina.elementos) |->
        ProcessarElemento(pagina.elementos[i], medicamento, metodo_usado)]

\* soup.find("script", {"id": "__NEXT_DATA__"}) and script_json.string
TemScript(pagina) == pagina.script.t \in {"invalido", "json"}

ExtrairProdutosPaginaSemFallback(pagina, medicamento, metodo_usado) ==
    IF TemScript(pagina)
    THEN ExtrairDoJson(pagina.script, medicamento, metodo_usado)
    ELSE ExtrairDoHtml(pagina, medicamento, metodo_usado)

\* ScraperCobasi.extrair_produtos_pagina
ExtrairProdutosPagina(pagina, medicamento, metodo_usado) ==
    LET do_json == IF TemScript(pagina)
                   THEN ExtrairDoJson(pagina.script, medicamento, metodo_usado)
                   ELSE <<>>
    IN  IF do_json # <<>> THEN do_json
        ELSE ExtrairDoHtml(pagina, medicamento, metodo_usado)

(***************************************************************************)
(* SpecCobasi: the extraction applied to one document out of a bounded set *)
(***************************************************************************)
\* prices seen at the product level: 189.9, 19.994, 20, 0, -5, text, blank
PrecosConhecidos ==
    {Aus, Nul, Decimal(189900), Decimal(19994), Inteiro(20), Inteiro(0),
     Inteiro(-5), Texto(" R$ 50,00 "), Texto("   ")}

Sku(name, price, oldPrice, available, discountPercent) ==
    [name |-> name, price |-> price, oldPrice |-> oldPrice,
     available |-> available, discountPercent |-> discountPercent,
     sku |-> Inteiro(7)]

SkusConhecidos ==
    {Sku(Texto("10kg"), Decimal(189900), Aus, Texto("AVAILABLE"), Aus),
     Sku(Texto("2kg"), Texto(" R$ 50,00 "), Decimal(60500), Texto("AVAILABLE"), Inteiro(10)),
     Sku(Texto("5kg"), Decimal(99990), Aus, Texto("UNAVAILABLE"), Aus),
     Sku(Aus, Inteiro(20), Inteiro(0), Aus, Decimal(12500)),
     Sku(Texto("3kg"), Inteiro(30), Aus, Texto("AVAILABLE"), Nul)}

ListasDeSkus == UNION {[1..n -> SkusConhecidos] : n \in 1..MaxSkus}

ProdutosSemSkus ==
    {[name |-> nome, id |-> Inteiro(123), price |-> preco, skus |-> <<>>] :
        nome \in {Texto("Bravecto 500mg"), Aus}, preco \in PrecosConhecidos}

ProdutosComSkus ==
    {[name |-> Texto("Bravecto 500mg"), id |-> Aus, price |-> Inteiro(20), skus |-> l] :
        l \in ListasDeSkus}

\* the products after the first one of a payload
ProdutosSeguintes ==
    {[name |-> Texto("Drontal Plus"), id |-> Aus, price |-> Aus,
      skus |-> <<Sku(Texto("5kg"), Decimal(99990), Aus, Texto("UNAVAILABLE"), Aus),
                 Sku(Texto("1kg"), Inteiro(20), Aus, Texto("AVAILABLE"), Aus)>>]}

\* a payload holds one product, or a product without SKUs followed by others
ListasDeProdutos ==
    {<<p>> : p \in ProdutosSemSkus \cup ProdutosComSkus}
    \cup {<<p>> \o r : p \in ProdutosSemSkus,
                       r \in UNION {[1..n -> ProdutosSeguintes] : n \in 1..(MaxProdutosJson - 1)}}

Scripts ==
    {ScriptAusente,
     \* the tag exists and its .string is None
     [t |-> "vazio", dados |-> [forma |-> "nenhuma", products |-> <<>>]],
     [t |-> "invalido", dados |-> [forma |-> "nenhuma", products |-> <<>>]],
     [t |-> "json", dados |-> [forma |-> "lista", products |-> <<>>]],
     [t |-> "json", dados |-> [forma |-> "objeto", products |-> <<>>]]}
    \cup {[t |-> "json", dados |-> [forma |-> "objeto", products |-> l]] :
            l \in ListasDeProdutos}

ElementosConhecidos ==
    {[nome |-> Texto(" Bravecto 10kg "), preco |-> Texto("R$ 189,90"), href |-> Texto("/bravecto")],
     [nome |-> Aus, preco |-> Aus, href |-> Aus],
     [nome |-> Texto("Drontal"), preco |-> Aus, href |-> Texto("https://www.cobasi.com.br/d")]}

Paginas ==
    {[script |-> sc, elementos |-> els] :
        sc \in Scripts,
        els \in UNION {[1..n -> ElementosConhecidos] : n \in 0..MaxElementos}}

CobasiInit ==
    /\ pagina_atual \in Paginas
    /\ medicamento_atual \in {"Bravecto", "Outro"}
    /\ metodo_atual \in {"requests", "selenium"}
    /\ extraidos = <<>> /\ sem_script = <<>> /\ pelo_json = <<>>
    /\ feito = FALSE /\ feito_sem_script = FALSE /\ feito_json = FALSE

\* produtos = self.extrair_produtos_pagina(soup, medicamento, metodo)
ExtrairPagina ==
    /\ ~feito
    /\ extraidos' = ExtrairProdutosPagina(pagina_atual, medicamento_atual, metodo_atual)
    /\ feito' = TRUE
    /\ UNCHANGED <<pagina_atual, medicamento_atual, metodo_atual, sem_script,
                   feito_sem_script, pelo_json, feito_json>>

\* then the same call on the document without its __NEXT_DATA__ script
ExtrairSemScript ==
    /\ feito /\ ~feito_sem_script
    /\ sem_script' = ExtrairProdutosPagina([pagina_atual EXCEPT !.script = ScriptAusente],
                                           medicamento_atual, metodo_atual)
    /\ feito_sem_script' = TRUE
    /\ UNCHANGED <<pagina_atual, medicamento_atual, metodo_atual, extraidos, feito,
                   pelo_json, feito_json>>

\* then produtos = self._extrair_do_json(script_json.string, medicamento, metodo_usado)
ExtrairJson ==
    /\ feito_sem_script /\ ~feito_json
    /\ TemScript(pagina_atual)
    /\ pelo_json' = ExtrairDoJson(pagina_atual.script, medicamento_atual, metodo_atual)
    /\ feito_json' = TRUE
    /\ UNCHANGED <<pagina_atual, medicamento_atual, metodo_atual, extraidos, feito,
                   sem_script, feito_sem_script>>

InitCobasi == CoordInit /\ RunParado /\ CobasiInit /\ PrecoParado /\ BuscaParado /\ ReqParado /\ MainParado

NextCobasi ==
    \/ ExtrairPagina /\ UNCHANGED <<coordVars, runVars, precoVars, buscaVars, reqVars, mainVars>>
    \/ ExtrairSemScript /\ UNCHANGED <<coordVars, runVars, precoVars, buscaVars, reqVars, mainVars>>
    \/ ExtrairJson /\ UNCHANGED <<coordVars, runVars, precoVars, buscaVars, reqVars, mainVars>>

SpecCobasi == InitCobasi /\ [][NextCobasi]_vars

(***************************************************************************)
(* SpecPreco: _formatar_preco applied to a price, then to its own result   *)
(***************************************************************************)
\* ScraperPetz._formatar_preco: the same branches; its bare except answers
\* "N/A", and no branch raises for a JSON value
FormatarPrecoPetz(preco) ==
    IF EhNumero(preco) /\ preco.n > 0 THEN "R$ " \o DuasCasas(preco)
    ELSE IF preco.t = "str" /\ Strip(preco.s) # "" THEN Strip(preco.s)
    ELSE "Consultar"

\* self._formatar_preco of the class in use
FormatarPrecoDe(classe, preco) ==
    IF classe = "Petz" THEN FormatarPrecoPetz(preco) ELSE FormatarPreco(preco)

\* prices given to _formatar_preco: None, integers around zero, multiples
\* of 6.5 (19.5 among them), 19.994, 189.9 and texts with and without
\* blanks around them
PrecosDeEntrada ==
    {Nul}
    \cup {Inteiro(n) : n \in (0 - MaxInteiro)..MaxInteiro}
    \cup {Decimal(k * 6500) : k \in (0 - MaxInteiro)..MaxInteiro}
    \cup {Decimal(19994), Decimal(189900)}
    \cup {Texto(txt) : txt \in {"R$ 19.50", "  R$ 19.50 ", "19,50", " Consultar", "a b ",
                                "", " ", "   "}}

PrecoInit ==
    /\ formatador \in {"Cobasi", "Petz"}
    /\ preco_entrada \in PrecosDeEntrada
    /\ formatado = "" /\ reformatado = "" /\ fpc = 0

\* formatado = self._formatar_preco(preco)
Formatar ==
    /\ fpc = 0
    /\ formatado' = FormatarPrecoDe(formatador, preco_entrada)
    /\ fpc' = 1
    /\ UNCHANGED <<formatador, preco_entrada, reformatado>>

\* reformatado = self._formatar_preco(formatado)
Reformatar ==
    /\ fpc = 1
    /\ reformatado' = FormatarPrecoDe(formatador, Texto(formatado))
    /\ fpc' = 2
    /\ UNCHANGED <<formatador, preco_entrada, formatado>>

InitPreco == CoordInit /\ RunParado /\ CobasiParado /\ PrecoInit /\ BuscaParado /\ ReqParado /\ MainParado

NextPreco ==
    \/ Formatar /\ UNCHANGED <<coordVars, runVars, cobasiVars, buscaVars, reqVars, mainVars>>
    \/ Reformatar /\ UNCHANGED <<coordVars, runVars, cobasiVars, buscaVars, reqVars, mainVars>>

SpecPreco == InitPreco /\ [][NextPreco]_vars

(***************************************************************************)
(* ScraperPetz                                                             *)
(***************************************************************************)
\* dict.get(chave, padrao) of a JSON value: the default replaces a missing key
GetOu(v, padrao) == IF v.t = "ausente" THEN padrao ELSE v

\* a != b of two JSON values (an int equals the float of the same value)
Diferente(a, b) ==
    IF EhNumero(a) /\ EhNumero(b)
    THEN (IF a.t = "int" THEN a.n * 1000 ELSE a.n) # (IF b.t = "int" THEN b.n * 1000 ELSE b.n)
    ELSE a # b

\* ScraperPetz._criar_produto_da_variacao: the records it adds (none when
\* it returns None: `desconto_percentual > 0` raises unless it is a number)
CriarProdutoDaVariacao(produto_json, variacao, medicamento, metodo_usado) ==
    LET preco_original == GetOuZero(variacao.price)
        preco_promocional == GetOu(variacao.promotionalPrice, preco_original)
        desconto_percentual == GetOuZero(variacao.discountPercentage)
    IN  IF ~EhNumero(desconto_percentual) THEN <<>>
        ELSE << [InfoProduto(ObterCategoria(medicamento), medicamento,
                             TextoOu(produto_json.name, "N/A"),
                             TextoOu(variacao.name, "Tamanho Único"),
                             FormatarPrecoPetz(preco_promocional),
                             "json_" \o metodo_usado)
                 EXCEPT !.site = "petz.com.br",
                        !.preco_antigo = IF Diferente(preco_original, preco_promocional)
                                         THEN FormatarPrecoPetz(preco_original) ELSE Nulo,
                        !.desconto = IF desconto_percentual.n > 0
                                     THEN NumeroStr(desconto_percentual) \o "%" ELSE Nulo,
                        !.disponibilidade = TextoOu(variacao.availability, "UNKNOWN"),
                        !.produto_id = StrOu(produto_json.id, "N/A"),
                        !.sku_id = StrOu(variacao.sku, "N/A"),
                        !.url = TextoOu(produto_json.url, "N/A")] >>

\* the variation built from the product's own fields when it lists none
VariacaoPadrao(produto_json) ==
    [name |-> GetOu(produto_json.variationAbreviation, Texto("Tamanho Único")),
     price |-> GetOuZero(produto_json.price),
     promotionalPrice |-> GetOu(produto_json.promotional_price, GetOuZero(produto_json.price)),
     discountPercentage |-> GetOuZero(produto_json.discountPercentage),
     sku |-> GetOu(produto_json.sku, Texto("N/A")),
     availability |-> GetOu(produto_json.availability, Texto("UNKNOWN"))]

RECURSIVE ProcessarVariacoes(_, _, _, _)
ProcessarVariacoes(produto_json, vs, medicamento, metodo_usado) ==
    IF vs = <<>> THEN <<>>
    ELSE CriarProdutoDaVariacao(produto_json, Head(vs), medicamento, metodo_usado)
         \o ProcessarVariacoes(produto_json, Tail(vs), medicamento, metodo_usado)

\* ScraperPetz._processar_json_produto: detalhes is the product-details
\* attribute; text that does not parse yields no record
ProcessarJsonProduto(detalhes, medicamento, metodo_usado) ==
    IF detalhes.t # "json" THEN <<>>
    ELSE LET produto_json == detalhes.dados
             vs == IF produto_json.variations = <<>>
                   THEN <<VariacaoPadrao(produto_json)>>
                   ELSE produto_json.variations
         IN  ProcessarVariacoes(produto_json, vs, medicamento, metodo_usado)

\* ScraperPetz.extrair_produtos_pagina: one product-card after the other; a
\* card without the attribute is skipped
RECURSIVE ExtrairPetz(_, _, _)
ExtrairPetz(cartoes, medicamento, metodo_usado) ==
    IF cartoes = <<>> THEN <<>>
    ELSE (IF Head(cartoes).t = "ausente" THEN <<>>
          ELSE ProcessarJsonProduto(Head(cartoes), medicamento, metodo_usado))
         \o ExtrairPetz(Tail(cartoes), medicamento, metodo_usado)

(***************************************************************************)
(* ScraperPetlove                                                          *)
(***************************************************************************)
\* element.get_text(strip=True) if element else padrao
TextoDoElemento(el, padrao) == IF el.t = "str" THEN Strip(el.s) ELSE padrao

\* ScraperPetlove._extrair_dados_basicos: link is Aus when the card has no
\* <a itemprop="url">, and then dados has no key link_produto
ExtrairDadosBasicos(elemento_produto) ==
    [nome |-> TextoDoElemento(elemento_produto.nome, "N/A"),
     preco_basico |-> TextoDoElemento(elemento_produto.preco, "Consultar"),
     quantidade_basica |-> TextoDoElemento(elemento_produto.quantidade, "Tamanho Único"),
     tem_link |-> elemento_produto.link.t = "str",
     link_produto |-> IF elemento_produto.link.t # "str" THEN ""
                      ELSE IF elemento_produto.link.s # "" /\ ~ComecaComHttp(elemento_produto.link.s)
                      THEN "https://www.petlove.com.br" \o elemento_produto.link.s
                      ELSE elemento_produto.link.s]

\* `if dados_basicos.get('link_produto')`
TemLinkProduto(dados_basicos) == dados_basicos.tem_link /\ dados_basicos.link_produto # ""

\* MÉTODO 1: the badges of div.variant-list; one without a price is left out
RECURSIVE VariacoesDoPopup(_)
VariacoesDoPopup(elementos) ==
    IF elementos = <<>> THEN <<>>
    ELSE LET quantidade == TextoDoElemento(Head(elementos).nome, "Tamanho Único")
             preco == TextoDoElemento(Head(elementos).preco, "Consultar")
         IN  (IF preco # "" /\ preco # "Consultar"
              THEN << [quantidade |-> quantidade, preco |-> preco] >> ELSE <<>>)
             \o VariacoesDoPopup(Tail(elementos))

\* MÉTODO 2: the size-select buttons, each with the page's main price
VariacoesDosBotoes(botoes, preco_pagina) ==
    [i \in 1..Len(botoes) |->
        [quantidade |-> TextoDoElemento(botoes[i], "Tamanho Único"),
         preco |-> TextoDoElemento(preco_pagina, "Consultar")]]

\* ScraperPetlove._buscar_variacoes_produto once obter_soup_pagina has
\* answered: soup_produto is "None", or the product page; a page whose
\* reading raises leaves the list as it was, empty
BuscarVariacoesProduto(soup_produto, pagina_produto) ==
    IF soup_produto = "None" \/ pagina_produto.erro THEN <<>>
    ELSE LET do_popup == VariacoesDoPopup(pagina_produto.popup)
         IN  IF do_popup # <<>> THEN do_popup
             ELSE VariacoesDosBotoes(pagina_produto.botoes, pagina_produto.preco)

\* the variations found and nothing else
VariacoesSemBasica(vs, dados_basicos) == vs

\* `if not variacoes`: the card's own size label and price
VariacoesOuBasica(vs, dados_basicos) ==
    IF vs # <<>> THEN vs
    ELSE << [quantidade |-> dados_basicos.quantidade_basica,
             preco |-> dados_basicos.preco_basico] >>

\* the records of a card tagged with the tier alone
ProdutosDoCartaoSemEstrategia(dados_basicos, vs, medicamento, metodo_usado) ==
    [i \in 1..Len(vs) |->
        [InfoProduto(ObterCategoria(medicamento), medicamento, dados_basicos.nome,
                     vs[i].quantidade, vs[i].preco, "html")
         EXCEPT !.site = "petlove.com.br"]]

\* `for variacao in variacoes: produtos.append(InfoProduto(...))`
ProdutosDoCartao(dados_basicos, vs, medicamento, metodo_usado) ==
    [i \in 1..Len(vs) |->
        [InfoProduto(ObterCategoria(medicamento), medicamento, dados_basicos.nome,
                     vs[i].quantidade, vs[i].preco, "html_" \o metodo_usado)
         EXCEPT !.site = "petlove.com.br",
                !.url = IF dados_basicos.tem_link THEN dados_basicos.link_produto
                        ELSE "N/A"]]

(***************************************************************************)
(* SpecBusca: one ScraperBase.buscar_medicamento of one adapter            *)
(*                                                                         *)
(* bpc: "inicio"         buscar_medicamento is entered                     *)
(*      "fetch"          obter_soup_pagina(url_busca) is running           *)
(*      "extrair"        extrair_produtos_pagina is entered                *)
(*      "cartao"         Petlove: top of `for elemento_produto`            *)
(*      "fetch_produto"  Petlove: obter_soup_pagina(url_produto) running   *)
(*      "limitar"        extrair_produtos_pagina has returned              *)
(*      "pausa"          _pausa_entre_buscas                               *)
(*      "fim"            buscar_medicamento has returned produtos          *)
(***************************************************************************)
\* results pages of Cobasi
PaginasCobasiBusca ==
    {[script |-> sc, elementos |-> els] :
        sc \in {ScriptAusente,
                [t |-> "invalido", dados |-> [forma |-> "nenhuma", products |-> <<>>]],
                [t |-> "json", dados |-> [forma |-> "objeto", products |->
                    << [name |-> Texto("Bravecto 500mg"), id |-> Inteiro(123),
                        price |-> Decimal(189900), skus |-> <<>>] >>]],
                [t |-> "json", dados |-> [forma |-> "objeto", products |->
                    << [name |-> Texto("Bravecto 500mg"), id |-> Aus, price |-> Aus,
                        skus |-> << Sku(Texto("10kg"), Decimal(189900), Aus, Texto("AVAILABLE"), Aus),
                                    Sku(Texto("5kg"), Decimal(99990), Aus, Texto("UNAVAILABLE"), Aus),
                                    Sku(Texto("2kg"), Inteiro(50), Aus, Texto("AVAILABLE"), Inteiro(10)) >>] >>]]},
        els \in {<<>>,
                 << [nome |-> Texto(" Bravecto 10kg "), preco |-> Texto("R$ 189,90"),
                     href |-> Texto("/bravecto")],
                    [nome |-> Aus, preco |-> Aus, href |-> Aus] >>}}

\* variations of a Petz product
VariacaoPetz(name, price, promotionalPrice, discountPercentage, availability) ==
    [name |-> name, price |-> price, promotionalPrice |-> promotionalPrice,
     discountPercentage |-> discountPercentage, availability |-> availability,
     sku |-> Inteiro(9)]

VariacoesPetzConhecidas ==
    {VariacaoPetz(Texto("10kg"), Inteiro(100), Decimal(80500), Inteiro(20), Texto("AVAILABLE")),
     VariacaoPetz(Texto("5kg"), Decimal(59900), Aus, Aus, Texto("UNAVAILABLE")),
     VariacaoPetz(Aus, Inteiro(30), Inteiro(30), Nul, Aus)}

ProdutoPetz(vs, availability) ==
    [t |-> "json",
     dados |-> [name |-> Texto("Bravecto Petz"), id |-> Inteiro(55), url |-> Texto("/p/55"),
                variations |-> vs, variationAbreviation |-> Aus, price |-> Decimal(45500),
                promotional_price |-> Aus, discountPercentage |-> Aus, sku |-> Aus,
                availability |-> availability]]

SemDetalhes == [t |-> "ausente", dados |-> <<>>]

\* product-card elements: without the attribute, with text that is not
\* JSON, a product without variations, a product with variations
CartoesPetz ==
    {SemDetalhes, [t |-> "invalido", dados |-> <<>>],
     ProdutoPetz(<<>>, Aus), ProdutoPetz(<<>>, Texto("UNAVAILABLE"))}
    \cup {ProdutoPetz(vs, Aus) :
            vs \in UNION {[1..n -> VariacoesPetzConhecidas] : n \in 1..MaxVariacoes}}

\* the cards that follow the first one of a page
CartoesPetzSeguintes == {SemDetalhes, ProdutoPetz(<<>>, Aus)}

\* results pages of Petz: any card first, then cards of the two plain kinds
PaginasPetz ==
    {<<>>} \cup
    {<<c>> \o r : c \in CartoesPetz,
                  r \in UNION {[1..n -> CartoesPetzSeguintes] : n \in 0..(MaxCartoes - 1)}}

\* list__item elements of Petlove
CartoesPetlove ==
    {[nome |-> Texto(" Bravecto Petlove "), preco |-> Texto("R$ 99,90"),
      quantidade |-> Texto("10kg"), link |-> Texto("/bravecto/p")],
     [nome |-> Texto("Drontal"), preco |-> Aus, quantidade |-> Aus,
      link |-> Texto("https://www.petlove.com.br/drontal/p")],
     [nome |-> Aus, preco |-> Texto("R$ 10,00"), quantidade |-> Aus, link |-> Aus],
     [nome |-> Texto("Advocate"), preco |-> Aus, quantidade |-> Texto("1 un"),
      link |-> Texto("")]}

PaginasPetlove == UNION {[1..n -> CartoesPetlove] : n \in 0..MaxCartoes}

BadgesConhecidos ==
    {[nome |-> Texto("3kg"), preco |-> Texto(" R$ 50,00 ")],
     [nome |-> Aus, preco |-> Texto("R$ 70,00")],
     [nome |-> Texto("9kg"), preco |-> Aus]}

\* product pages of Petlove: popup holds the badges of div.variant-list,
\* botoes the <b> of each size-select button, preco the page's main price
PaginasProduto ==
    {[erro |-> TRUE, popup |-> <<>>, botoes |-> <<>>, preco |-> Aus],
     [erro |-> FALSE, popup |-> <<>>, botoes |-> <<>>, preco |-> Texto("R$ 1,00")],
     [erro |-> FALSE, popup |-> <<>>, botoes |-> <<Texto("P"), Aus>>, preco |-> Aus],
     [erro |-> FALSE, popup |-> <<>>, botoes |-> <<Texto("M")>>, preco |-> Texto("R$ 20,00")]}
    \cup {[erro |-> FALSE, popup |-> bs, botoes |-> <<Texto("G")>>, preco |-> Texto("R$ 5,00")] :
            bs \in UNION {[1..n -> BadgesConhecidos] : n \in 1..MaxVariacoes}}

\* the product pages of the cards that follow the first one of a page
PaginasProdutoSeguintes ==
    {[erro |-> TRUE, popup |-> <<>>, botoes |-> <<>>, preco |-> Aus],
     [erro |-> FALSE, popup |-> <<>>, botoes |-> <<Texto("M")>>, preco |-> Texto("R$ 20,00")]}

\* the product page of card i
PaginasProdutoDe(i) == IF i = 1 THEN PaginasProduto ELSE PaginasProdutoSeguintes

runFixos == <<op, alvo, modo_teste, rpc, indice, termo, produtos_coletados,
              dados_todos_sites, saida, interrupcoes>>

cobasiFixos == <<pagina_atual, medicamento_atual, metodo_atual, feito, sem_script,
                 feito_sem_script, pelo_json, feito_json>>

BuscaInit ==
    /\ adaptador \in {"Cobasi", "Petlove", "Petz"}
    /\ modo_teste \in BOOLEAN
    /\ pagina_atual \in (IF adaptador = "Cobasi" THEN PaginasCobasiBusca
                         ELSE {[script |-> ScriptAusente, elementos |-> <<>>]})
    /\ pagina_petz \in (IF adaptador = "Petz" THEN PaginasPetz ELSE {<<>>})
    /\ pagina_petlove \in (IF adaptador = "Petlove" THEN PaginasPetlove ELSE {<<>>})
    /\ medicamento_atual = "Bravecto"
    /\ bpc = "inicio" /\ i_cartao = 0 /\ variacoes = <<>>
    /\ fetches_secundarios = 0 /\ origem = ""
    /\ op = "nenhuma" /\ alvo = 0 /\ rpc = "fim" /\ indice = 0 /\ termo = 0
    /\ soup = "None" /\ metodo = "" /\ produtos = <<>> /\ produtos_coletados = <<>>
    /\ dados_todos_sites = [s \in 1..NumSites |-> FALSE]
    /\ saida = "nenhuma" /\ interrupcoes = 0
    /\ metodo_atual = "" /\ extraidos = <<>> /\ sem_script = <<>> /\ pelo_json = <<>>
    /\ feito = FALSE /\ feito_sem_script = FALSE /\ feito_json = FALSE

\* soup, metodo = self.gerenciador_conexao.obter_soup_pagina(url_busca)
BuscaComecar ==
    /\ bpc = "inicio"
    /\ bpc' = "fetch"
    /\ IniciarChamada
    /\ UNCHANGED <<soup, metodo, produtos, extraidos, i_cartao, variacoes,
                   fetches_secundarios, origem>>

\* a call of the coordinator made by the adapter is running
BuscaPassoFetch == bpc \in {"fetch", "fetch_produto"} /\ pc # "idle"

\* obter_soup_pagina has returned: `if not soup: return produtos`
BuscaAposFetch ==
    /\ bpc = "fetch" /\ pc = "idle"
    /\ IF retorno.conteudo = "None"
       THEN /\ bpc' = "fim"
            /\ UNCHANGED <<soup, metodo, origem>>
       ELSE /\ bpc' = "extrair"
            /\ soup' = retorno.conteudo
            /\ metodo' = retorno.metodo
            /\ origem' = IF chamada.fast = "ok" THEN "requests" ELSE "selenium"
    /\ chamada' = ChamadaNova
    /\ retorno' = RetornoNenhum
    /\ UNCHANGED <<pc, tentativa, selenium_inicializado, driver, criados, quits,
                   stats_metodos, retStats, hist>>
    /\ UNCHANGED <<produtos, extraidos, i_cartao, variacoes, fetches_secundarios>>

\* the loop over the cards of Petlove goes on after the card i_cartao
ProximoCartao ==
    /\ i_cartao' = i_cartao + 1
    /\ bpc' = IF i_cartao < Len(pagina_petlove) THEN "cartao" ELSE "limitar"

\* produtos = self.extrair_produtos_pagina(soup, medicamento, metodo):
\* Cobasi and Petz extract from the page alone, Petlove enters its loop
ExtrairDaPagina ==
    /\ bpc = "extrair"
    /\ IF adaptador = "Petlove"
       THEN /\ extraidos' = <<>>
            /\ i_cartao' = 1
            /\ bpc' = IF pagina_petlove = <<>> THEN "limitar" ELSE "cartao"
       ELSE /\ extraidos' = IF adaptador = "Cobasi"
                            THEN ExtrairProdutosPagina(pagina_atual, medicamento_atual, metodo)
                            ELSE ExtrairPetz(pagina_petz, medicamento_atual, metodo)
            /\ bpc' = "limitar"
            /\ UNCHANGED i_cartao
    /\ UNCHANGED <<soup, metodo, produtos, variacoes, fetches_secundarios, origem>>
    /\ UNCHANGED coordVars

\* Petlove, one elemento_produto: _extrair_dados_basicos, then either
\* _buscar_variacoes_produto asks for the product page or the card's own
\* data make the single record
PetloveCartao ==
    /\ bpc = "cartao"
    /\ LET dados_basicos == ExtrairDadosBasicos(pagina_petlove[i_cartao]) IN
       IF TemLinkProduto(dados_basicos)
       THEN /\ bpc' = "fetch_produto"
            /\ fetches_secundarios' = fetches_secundarios + 1
            /\ IniciarChamada
            /\ UNCHANGED <<extraidos, i_cartao, variacoes>>
       ELSE /\ variacoes' = <<>>
            /\ extraidos' = extraidos \o ProdutosDoCartao(dados_basicos,
                                VariacoesOuBasica(<<>>, dados_basicos),
                                medicamento_atual, metodo)
            /\ ProximoCartao
            /\ UNCHANGED fetches_secundarios
            /\ UNCHANGED coordVars
    /\ UNCHANGED <<soup, metodo, produtos, origem>>

\* Petlove: obter_soup_pagina(url_produto) has returned; the variations
\* read from the product page, or the card's own data, make the records
PetloveAposFetchProduto(pagina_produto) ==
    /\ bpc = "fetch_produto" /\ pc = "idle"
    /\ LET dados_basicos == ExtrairDadosBasicos(pagina_petlove[i_cartao])
           vs == BuscarVariacoesProduto(retorno.conteudo, pagina_produto)
       IN  /\ variacoes' = vs
           /\ extraidos' = extraidos \o ProdutosDoCartao(dados_basicos,
                               VariacoesOuBasica(vs, dados_basicos),
                               medicamento_atual, metodo)
    /\ ProximoCartao
    /\ chamada' = ChamadaNova
    /\ retorno' = RetornoNenhum
    /\ UNCHANGED <<pc, tentativa, selenium_inicializado, driver, criados, quits,
                   stats_metodos, retStats, hist>>
    /\ UNCHANGED <<soup, metodo, produtos, fetches_secundarios, origem>>

\* `if self.modo_teste and produtos: produtos = produtos[:1]`
LimitarProdutos ==
    /\ bpc = "limitar"
    /\ produtos' = Limitar(modo_teste, extraidos)
    /\ bpc' = "pausa"
    /\ UNCHANGED <<soup, metodo, extraidos, i_cartao, variacoes, fetches_secundarios, origem>>
    /\ UNCHANGED coordVars

\* self._pausa_entre_buscas(); return produtos
BuscaPausa ==
    /\ bpc = "pausa"
    /\ bpc' = "fim"
    /\ UNCHANGED <<soup, metodo, produtos, extraidos, i_cartao, variacoes,
                   fetches_secundarios, origem>>
    /\ UNCHANGED coordVars

buscaFixos == <<runFixos, cobasiFixos, precoVars, reqVars, mainVars, adaptador, pagina_petz, pagina_petlove>>

buscaLocais == <<soup, metodo, produtos, extraidos, bpc, i_cartao, variacoes,
                 fetches_secundarios, origem>>

InitBusca == CoordInit /\ BuscaInit /\ PrecoParado /\ ReqParado /\ MainParado

NextBusca ==
    \/ BuscaComecar /\ UNCHANGED buscaFixos
    \/ \E res \in ResultadosGetRun : BuscaPassoFetch /\ Requisicao(res) /\ UNCHANGED <<buscaFixos, buscaLocais>>
    \/ \E res \in ResultadosInit : BuscaPassoFetch /\ InicializarDriver(res) /\ UNCHANGED <<buscaFixos, buscaLocais>>
    \/ \E res \in ResultadosNav : BuscaPassoFetch /\ Navegar(res) /\ UNCHANGED <<buscaFixos, buscaLocais>>
    \/ BuscaAposFetch /\ UNCHANGED buscaFixos
    \/ ExtrairDaPagina /\ UNCHANGED buscaFixos
    \/ PetloveCartao /\ UNCHANGED buscaFixos
    \/ \E pagina_produto \in PaginasProdutoDe(i_cartao) : PetloveAposFetchProduto(pagina_produto) /\ UNCHANGED buscaFixos
    \/ LimitarProdutos /\ UNCHANGED buscaFixos
    \/ BuscaPausa /\ UNCHANGED buscaFixos

SpecBusca == InitBusca /\ [][NextBusca]_vars

(***************************************************************************)
(* Claims about GerenciadorConexaoHibrida (checked under Spec)             *)
(***************************************************************************)
\* a call that needed the fallback has returned
FallbackConcluido == pc = "idle" /\ chamada.fast = "falha"

\* C1 (as stated): whenever fazer_requisicao fails for a call,
\* navegar_para_url is invoked exactly once during that call, whatever its
\* outcome.
C1_NavegarExatamenteUmaVez ==
    /\ chamada.navs <= 1
    /\ FallbackConcluido => chamada.navs = 1

\* C1 (amended): in a call whose fast fetch failed navegar_para_url is
\* invoked at most once: exactly once when the engine was already started
\* or inicializar_driver returned True in that call, and not at all when
\* inicializar_driver returned False in that call.
C1_NavegarUmaVezSeMotorIniciou ==
    /\ chamada.navs <= 1
    /\ FallbackConcluido =>
          chamada.navs = (IF chamada.initRes \in {"nenhum", "ok"} THEN 1 ELSE 0)

\* a fallback call whose single navigation failed has returned
C1_Witness ==
    /\ FallbackConcluido
    /\ chamada.navs = 1
    /\ chamada.navRes = "timeout_carregamento"
    /\ retorno.conteudo = "None"

\* C2 (as stated): across N >= 1 calls that all require fallback exactly
\* one webdriver is created, and none is created later in the run.
C2_UmMotorCriado ==
    (pc = "idle" /\ hist.concluidas >= 1 /\ hist.fastFalhas = hist.concluidas)
        => criados = 1

\* C2 (amended): inicializar_driver returns True at most once per
\* coordinator; once it has, selenium_inicializado stays True, the webdriver
\* held is never replaced and no webdriver is created again, even after a
\* failed fetch. (A start that returned False is attempted again by the
\* next call that needs fallback.)
C2_MotorIniciadoUmaVez ==
    [][ /\ hist'.initsOk <= 1
        /\ selenium_inicializado' = (hist'.initsOk = 1)
        /\ selenium_inicializado =>
              /\ selenium_inicializado'
              /\ criados' = criados
              /\ driver' = driver ]_vars

\* two fallback calls after the start, the first of them a failed fetch
C2_Witness ==
    /\ pc = "idle"
    /\ hist.fastFalhas = hist.concluidas
    /\ hist.navs >= 2
    /\ stats_metodos.falhas_totais >= 1
    /\ chamada.navRes = "ok"
    /\ criados = 1

\* the counter a completed call must have incremented
ChaveDaChamada(c) ==
    IF c.fast = "ok" THEN "requests_sucesso"
    ELSE IF c.navRes = "ok" THEN "selenium_fallback"
    ELSE "falhas_totais"

\* C3: the three counters sum to the number of completed calls; a step that
\* completes a call increments exactly one counter by 1 (requests_sucesso
\* iff the fast fetch succeeded, selenium_fallback iff the browser fetch
\* succeeded, falhas_totais otherwise) and every other step, including
\* obter_estatisticas and fechar_conexoes, leaves the counters unchanged.
C3_ContadoresPorChamada ==
    [][ /\ Total(stats_metodos') = hist'.concluidas
        /\ IF hist'.concluidas = hist.concluidas + 1
           THEN stats_metodos' = [stats_metodos EXCEPT ![ChaveDaChamada(chamada')] = @ + 1]
           ELSE stats_metodos' = stats_metodos ]_vars

\* each counter was incremented, then the statistics read and the
\* connections closed
C3_Witness ==
    /\ stats_metodos = [requests_sucesso |-> 1, selenium_fallback |-> 1,
                        falhas_totais |-> 1]
    /\ hist.concluidas = 3
    /\ hist.fechamentos >= 1
    /\ retStats # <<>> /\ retStats.falhas_totais = 1

TaxasZero == {"0%", "0.0%"}

\* C4 (as stated): obter_estatisticas before any fetch returns the three
\* counts equal to zero together with the three rates equal to 0%.
C4_EstatisticasZeroComTaxas ==
    (hist.estatisticas = 1 /\ hist.iniciadas = 0) =>
        /\ retStats.requests_sucesso = 0
        /\ retStats.selenium_fallback = 0
        /\ retStats.falhas_totais = 0
        /\ {"taxa_requests", "taxa_selenium", "taxa_falhas"} \subseteq DOMAIN retStats
        /\ retStats.taxa_requests \in TaxasZero
        /\ retStats.taxa_selenium \in TaxasZero
        /\ retStats.taxa_falhas \in TaxasZero

\* C5: inside one call the browser strategy is started or invoked only
\* after fazer_requisicao has returned a failure, never in a call whose
\* fast fetch returned 200; while no fast fetch has failed no webdriver
\* exists and navegar_para_url was never invoked.
C5_NavegadorSoDepoisDoRequests ==
    /\ pc \in {"init", "navegar"} => chamada.fast = "falha"
    /\ (chamada.inits > 0 \/ chamada.navs > 0) => chamada.fast = "falha"
    /\ chamada.fast = "ok" => chamada.inits = 0 /\ chamada.navs = 0
    /\ hist.fastFalhas = 0 =>
          criados = 0 /\ hist.navs = 0 /\ ~selenium_inicializado /\ driver = 0

\* the browser is being used after a fast fetch that took both attempts
C5_Witness ==
    /\ pc = "navegar"
    /\ chamada.gets = 2
    /\ chamada.fast = "falha"
    /\ hist.concluidas >= 1
    /\ stats_metodos.requests_sucesso >= 1

\* C7 (as stated): whatever the number of fechar_conexoes calls on a
\* coordinator whose engine was started, driver.quit() is executed exactly
\* once; it is not executed when no engine was ever started.
C7_QuitExatamenteUmaVez ==
    /\ hist.fechamentosComDriver >= 1 => TotalQuits = 1
    /\ criados = 0 => TotalQuits = 0

(***************************************************************************)
(* Claims about GerenciadorScrapingMedicamentos (checked under SpecRun)    *)
(***************************************************************************)
\* C6: when executar_todos_scrapers or executar_site_especifico (known
\* site) exits and a browser engine was started during it, fechar_conexoes
\* has been executed, on every exit path (normal return, exception of a
\* scraper or of the sink, KeyboardInterrupt at any point).
C6_FechaEmTodaSaida ==
    (rpc = "fim" /\ ~(op = "site" /\ alvo = 0) /\ hist.initsOk >= 1)
        => hist.fechamentos >= 1

(***************************************************************************)
(* Claims about ScraperCobasi (checked under SpecCobasi)                   *)
(***************************************************************************)
\* C8: for a document whose __NEXT_DATA__ payload is not valid JSON,
\* extrair_produtos_pagina returns (the decode error is caught inside) the
\* very records it returns for the same document without the script.
C8_JsonInvalidoIgualSemScript ==
    (feito /\ feito_sem_script /\ pagina_atual.script.t = "invalido") =>
        extraidos = sem_script

\* the case of C8: an invalid payload on a page that has product cards
C8_Witness ==
    /\ feito /\ feito_sem_script
    /\ pagina_atual.script.t = "invalido"
    /\ Len(pagina_atual.elementos) = MaxElementos
    /\ Len(extraidos) = MaxElementos
    /\ extraidos[1].metodo = "html_" \o metodo_atual

\* the payloads of C9: one product, which has a SKU list
UmProdutoComSkus ==
    /\ pagina_atual.script.t = "json"
    /\ pagina_atual.script.dados.forma = "objeto"
    /\ Len(pagina_atual.script.dados.products) = 1
    /\ pagina_atual.script.dados.products[1].skus # <<>>

SkuDisponivel(sku) == sku.available = Texto("AVAILABLE")

\* C9 (as stated): _extrair_do_json emits exactly one record per SKU whose
\* availability is 'AVAILABLE', in payload order, each with the product's
\* name and that SKU's own label and price, and none for any other SKU.
C9_UmRegistroPorSkuDisponivel ==
    (feito_json /\ UmProdutoComSkus) =>
        LET produto_json == pagina_atual.script.dados.products[1]
            disponiveis == SelectSeq(produto_json.skus, SkuDisponivel)
        IN  /\ Len(pelo_json) = Len(disponiveis)
            /\ \A i \in 1..Len(disponiveis) :
                 /\ pelo_json[i].produto = TextoOu(produto_json.name, "N/A")
                 /\ pelo_json[i].quantidade = TextoOu(disponiveis[i].name, "N/A")
                 /\ pelo_json[i].preco = FormatarPreco(GetOuZero(disponiveis[i].price))

\* the scenario of C10: one product without SKUs priced 189.9, term Bravecto
CenarioBravecto ==
    /\ feito
    /\ medicamento_atual = "Bravecto"
    /\ pagina_atual.script.t = "json"
    /\ pagina_atual.script.dados.forma = "objeto"
    /\ Len(pagina_atual.script.dados.products) = 1
    /\ pagina_atual.script.dados.products[1].skus = <<>>
    /\ pagina_atual.script.dados.products[1].price = Decimal(189900)

\* C10 (as stated): the scenario yields exactly one record with quantidade
\* 'Tamanho Único', preco 'R$ 189.90' and metodo 'json'.
C10_MetodoJson ==
    CenarioBravecto =>
        /\ Len(extraidos) = 1
        /\ extraidos[1].quantidade = "Tamanho Único"
        /\ extraidos[1].preco = "R$ 189.90"
        /\ extraidos[1].metodo = "json"

\* C10 (amended): the scenario yields exactly one record with quantidade
\* 'Tamanho Único', preco 'R$ 189.90' built from the product-level price,
\* and metodo 'json_' followed by the fetch method given to the call
\* ('json_requests' or 'json_selenium').
C10_MetodoJsonComFetch ==
    CenarioBravecto =>
        /\ Len(extraidos) = 1
        /\ extraidos[1].quantidade = "Tamanho Único"
        /\ extraidos[1].preco = "R$ 189.90"
        /\ extraidos[1].metodo \in {"json_requests", "json_selenium"}
        /\ extraidos[1].metodo = "json_" \o metodo_atual

\* the scenario happens with the fetch made by the browser
C10_Witness ==
    /\ CenarioBravecto
    /\ metodo_atual = "selenium"
    /\ pagina_atual.elementos # <<>>
    /\ extraidos[1].categoria = "Antipulgas e Carrapatos"

(***************************************************************************)
(* Claims about _formatar_preco (checked under SpecPreco)                  *)
(***************************************************************************)
RECURSIVE SoEspacos(_)
SoEspacos(txt) == txt = "" \/ (SubSeq(txt, 1, 1) = " " /\ SoEspacos(SubSeq(txt, 2, Len(txt))))

\* r is txt without the blanks around it
Aparado(txt, r) ==
    /\ (r = "" \/ (SubSeq(r, 1, 1) # " " /\ SubSeq(r, Len(r), Len(r)) # " "))
    /\ \E a \in 0..Len(txt) :
         /\ a + Len(r) <= Len(txt)
         /\ SoEspacos(SubSeq(txt, 1, a))
         /\ SubSeq(txt, a + 1, a + Len(r)) = r
         /\ SoEspacos(SubSeq(txt, a + Len(r) + 1, Len(txt)))

\* 'R$ ' followed by digits, a point and exactly two decimals
EhMoeda(txt) ==
    /\ Len(txt) >= 7
    /\ SubSeq(txt, 1, 3) = "R$ "
    /\ SubSeq(txt, Len(txt) - 2, Len(txt) - 2) = "."
    /\ \A i \in (4..Len(txt)) \ {Len(txt) - 2} :
         SubSeq(txt, i, i) \in {"0", "1", "2", "3", "4", "5", "6", "7", "8", "9"}

\* what C11 says of numbers, of zero, negative and missing values, and of
\* applying the function to its own result
C11_NumerosESentinela ==
    /\ (EhNumero(preco_entrada) /\ preco_entrada.n > 0) => EhMoeda(formatado)
    /\ (preco_entrada.t = "int" /\ preco_entrada.n > 0) =>
           formatado = "R$ " \o ToString(preco_entrada.n) \o ".00"
    /\ preco_entrada = Decimal(19500) => formatado = "R$ 19.50"
    /\ preco_entrada = Decimal(19994) => formatado = "R$ 19.99"
    /\ ((EhNumero(preco_entrada) /\ preco_entrada.n <= 0) \/ preco_entrada = Nul) =>
           formatado = "Consultar"
    /\ fpc = 2 => reformatado = formatado

\* C11 (as stated): every number > 0 becomes 'R$ ' and the value with two
\* decimals, every non-empty string becomes itself trimmed, zero, negative
\* and missing values become 'Consultar', and formatting the result again
\* changes nothing.
C11_FormatarPreco ==
    fpc >= 1 =>
        /\ C11_NumerosESentinela
        /\ (preco_entrada.t = "str" /\ preco_entrada.s # "") =>
               Aparado(preco_entrada.s, formatado)

\* C11 (amended): as above, but it is every string that is not blank that
\* becomes itself trimmed; an empty or blank string becomes 'Consultar'.
C11_FormatarPrecoNaoBranco ==
    fpc >= 1 =>
        /\ C11_NumerosESentinela
        /\ (preco_entrada.t = "str" /\ ~SoEspacos(preco_entrada.s)) =>
               Aparado(preco_entrada.s, formatado)
        /\ (preco_entrada.t = "str" /\ SoEspacos(preco_entrada.s)) =>
               formatado = "Consultar"

\* 19.5 formatted twice by ScraperPetz
C11_Witness ==
    /\ fpc = 2 /\ formatador = "Petz"
    /\ preco_entrada = Decimal(19500)
    /\ reformatado = "R$ 19.50"

(***************************************************************************)
(* Claims about one buscar_medicamento (checked under SpecBusca)           *)
(***************************************************************************)
\* buscar_medicamento is past extrair_produtos_pagina
Extraiu == bpc \in {"limitar", "pausa", "fim"} /\ origem # ""

\* buscar_medicamento is past the test-mode cut
Retornou == bpc \in {"pausa", "fim"}

\* C12 (as stated): with test mode on, only the first item of the results
\* page is processed, the cut coming before any expansion into variations
\* and before any secondary fetch: items after the first are never
\* expanded and at most one product page is requested per term.
C12_CorteAntesDaExpansao ==
    modo_teste =>
        /\ fetches_secundarios <= 1
        /\ bpc \in {"cartao", "fetch_produto"} => i_cartao <= 1

\* C13: with modo_teste on, buscar_medicamento returns at most one record
\* whatever the page holds; with modo_teste off it returns every record
\* that extrair_produtos_pagina returned, in the same order.
C13_UmRegistroEmModoTeste ==
    Retornou =>
        /\ modo_teste => Len(produtos) <= 1
        /\ ~modo_teste => produtos = extraidos

\* test mode cut a page that yielded several records down to the first
C13_Witness ==
    /\ bpc = "fim" /\ modo_teste
    /\ Len(extraidos) >= 2
    /\ produtos = <<extraidos[1]>>

\* a record built from the structured payload carries the product id read
\* from it; one built from DOM elements carries none
DoPayload(registro) == registro.produto_id # Nulo

Novos == SubSeq(extraidos', Len(extraidos) + 1, Len(extraidos'))

\* a step of ScraperPetlove.extrair_produtos_pagina finishes a card
CartaoConcluido == bpc \in {"cartao", "fetch_produto"} /\ i_cartao' = i_cartao + 1

\* C19: for each card of Petlove, when the fetch of the product page fails
\* or no variation is found, exactly one record is emitted with the card's
\* own price and size label (else 'Consultar' / 'Tamanho Único');
\* otherwise exactly one record per variation found; all records carry the
\* card's product name and the earlier records stay as they are.
C19_RegistrosPorCartao ==
    [][CartaoConcluido =>
        LET cartao == pagina_petlove[i_cartao] IN
        /\ Len(extraidos') >= Len(extraidos)
        /\ SubSeq(extraidos', 1, Len(extraidos)) = extraidos
        /\ (bpc = "fetch_produto" /\ retorno.conteudo = "None") => variacoes' = <<>>
        /\ \A i \in 1..Len(Novos) :
              IF cartao.nome.t = "str" THEN Aparado(cartao.nome.s, Novos[i].produto)
              ELSE Novos[i].produto = "N/A"
        /\ IF variacoes' = <<>>
           THEN /\ Len(Novos) = 1
                /\ IF cartao.preco.t = "str" THEN Aparado(cartao.preco.s, Novos[1].preco)
                   ELSE Novos[1].preco = "Consultar"
                /\ IF cartao.quantidade.t = "str"
                   THEN Aparado(cartao.quantidade.s, Novos[1].quantidade)
                   ELSE Novos[1].quantidade = "Tamanho Único"
           ELSE /\ Len(Novos) = Len(variacoes')
                /\ \A i \in 1..Len(Novos) :
                     /\ Novos[i].quantidade = variacoes'[i].quantidade
                     /\ Novos[i].preco = variacoes'[i].preco
    ]_vars

\* a page of two cards with product pages: the first one gave one record per
\* variation of its product page, the second one, without variations, a
\* single record
C19_Witness ==
    /\ adaptador = "Petlove" /\ bpc = "limitar"
    /\ Len(pagina_petlove) = 2
    /\ variacoes = <<>>
    /\ Len(extraidos) = MaxVariacoes + 1
    /\ fetches_secundarios = 2

\* C20 (as stated): no record built from a structured payload (Cobasi's
\* __NEXT_DATA__, Petz's product-details) describes a variant whose
\* availability is not the available value: the records of one page all
\* carry one availability, which for Cobasi is 'AVAILABLE'.
C20_SoVariantesDisponiveis ==
    (Extraiu /\ adaptador \in {"Cobasi", "Petz"}) =>
        \A i \in 1..Len(extraidos) : DoPayload(extraidos[i]) =>
            /\ adaptador = "Cobasi" => extraidos[i].disponibilidade \in {"AVAILABLE", Nulo}
            /\ \A j \in 1..Len(extraidos) : DoPayload(extraidos[j]) =>
                 extraidos[i].disponibilidade = extraidos[j].disponibilidade

(***************************************************************************)
(* Claims on the per-term and per-site loops (SpecRun)                     *)
(***************************************************************************)
\* the positions of the per-term loop
LacoDeTermos == {"buscar", "fetch", "extrair", "pausa"}

\* a step that ends the current term without a KeyboardInterrupt
TermoTermina ==
    /\ rpc \in {"fetch", "extrair", "pausa"}
    /\ interrupcoes' = interrupcoes
    /\ (termo' # termo \/ rpc' \notin LacoDeTermos)

\* the term that ends has failed: no document, or an exception in its
\* processing, or a page without products
TermoSemRegistros == rpc \in {"fetch", "extrair"} \/ produtos = <<>>

\* C14: in executar_scraping_completo a term whose fetch fails, whose page
\* yields no products or whose processing raises contributes zero records;
\* the records collected for the earlier terms stay as they are and the next
\* term of the catalog, if there is one, is processed.
C14_FalhaDeUmTermoNaoAborta ==
    [][TermoTermina =>
          /\ Len(produtos_coletados') >= Len(produtos_coletados)
          /\ SubSeq(produtos_coletados', 1, Len(produtos_coletados)) = produtos_coletados
          /\ TermoSemRegistros => produtos_coletados' = produtos_coletados
          /\ termo < NumTermos => (termo' = termo + 1 /\ rpc' = "buscar")
          /\ termo = NumTermos => rpc' \notin {"fim", "buscar"}
          /\ saida' = saida]_vars

\* the first term gave one record, the fetch of the last term failed, and the
\* site is about to be saved with exactly that record
C14_Witness ==
    /\ op = "site" /\ rpc = "salvar" /\ termo = NumTermos
    /\ interrupcoes = 0
    /\ stats_metodos.falhas_totais = 1
    /\ produtos_coletados = <<Registro(indice, 1, 1)>>

\* seq holds records of one site only, by term and, inside a term, in the
\* order the adapter emitted them, starting with its first
EmOrdem(seq, site) ==
    /\ \A i \in 1..Len(seq) : seq[i][1] = site
    /\ Len(seq) > 0 => seq[1][3] = 1
    /\ \A i \in 1..(Len(seq) - 1) :
          \/ seq[i + 1][2] = seq[i][2] /\ seq[i + 1][3] = seq[i][3] + 1
          \/ seq[i + 1][2] > seq[i][2] /\ seq[i + 1][3] = 1

\* C15: the list of executar_scraping_completo is the concatenation, in term
\* order, of each term's records in the order the adapter emitted them;
\* executar_todos_scrapers takes the sites in declared order, the first one
\* first, and starts a site only after the previous one has finished.
C15_OrdemDeTermosESites ==
    [][/\ EmOrdem(produtos_coletados', indice')
       /\ (rpc' = "preparar" /\ rpc # "preparar") => rpc \in {"inicio", "pausa_site"}
       /\ indice' # indice =>
             \/ rpc = "inicio" /\ (op = "todos" => indice' = 1)
             \/ rpc = "pausa_site" /\ op = "todos" /\ indice' = indice + 1
       /\ (termo' # termo /\ rpc # "preparar") => termo' = termo + 1]_vars

\* the last site is being saved with records of both terms, two of the first
C15_Witness ==
    /\ op = "todos" /\ indice = NumSites /\ rpc = "salvar"
    /\ produtos_coletados = <<Registro(indice, 1, 1), Registro(indice, 1, 2),
                              Registro(indice, 2, 1)>>

\* C17: a KeyboardInterrupt that arrives while executar_scraping_completo is
\* processing a term ends the term loop of the site (no further term is
\* fetched), leaves the records collected for the earlier terms as they are
\* and does not end the run, which goes on to fechar_conexoes and the final
\* report.
C17_InterrupcaoEncerraOSite ==
    [][(interrupcoes' # interrupcoes /\ NoLacoDeTermos) =>
          /\ rpc' \notin LacoDeTermos
          /\ produtos_coletados' = produtos_coletados
          /\ rpc' # "fim" /\ saida' = saida]_vars

\* C18: the delay _pausa_entre_buscas elapses between the end of a term and
\* the first fetch of the next one on every path: no step takes the loop to
\* the next term except the one that ends the delay.
C18_PausaEntreTodosOsTermos ==
    [][(NoLacoDeTermos /\ rpc' = "buscar" /\ termo' # termo) => rpc = "pausa"]_vars

(***************************************************************************)
(* Claims on ManipuladorRequests.fazer_requisicao (SpecReq)                *)
(***************************************************************************)
\* the step executes session.get
FezGet == gets' = gets + 1

\* C21 (as stated): a GET answered with HTTP 429 does not end the call: the
\* loop stays open for the retry after the cooldown.
C21_Repete429 ==
    [][(FezGet /\ resultado' = "429") => (req_pc' = "laco" /\ dormido' > dormido)]_vars

\* C22: a connection error on any attempt ends the call at once with
\* (None, 'conexao_falhou'), and a call that has ended issues no further GET,
\* whatever max_tentativas is.
C22_ConexaoFalhouEncerra ==
    [][/\ (FezGet /\ resultado' = "ConnectionError") =>
              /\ req_pc' = "fim"
              /\ req_retorno' = [ok |-> FALSE, motivo |-> "conexao_falhou"]
       /\ req_pc = "fim" => gets' = gets
       /\ (req_pc = "fim" /\ req_retorno.motivo = "conexao_falhou") =>
              resultado = "ConnectionError"]_vars

\* a connection error on the second attempt of a call that had three
C22_Witness ==
    /\ req_pc = "fim" /\ max_tentativas = MaxTentativas /\ gets = 2
    /\ resultado = "ConnectionError" /\ req_retorno.motivo = "conexao_falhou"

\* C23: the call terminates, it never issues more than max_tentativas GETs,
\* a timeout is retried while attempts remain, and a call whose attempts all
\* timed out returns a failure with the reason 'timeout' after exactly
\* max_tentativas GETs.
C23_TerminaEmMaxTentativas ==
    /\ [](gets <= max_tentativas)
    /\ [][(FezGet /\ resultado' = "Timeout" /\ gets' < max_tentativas) => req_pc' = "laco"]_vars
    /\ []((req_pc = "fim" /\ gets >= 1 /\ timeouts = gets) =>
             /\ gets = max_tentativas
             /\ req_retorno = [ok |-> FALSE, motivo |-> "timeout"])
    /\ <>(req_pc = "fim")

\* every one of the MaxTentativas attempts timed out
C23_Witness ==
    /\ req_pc = "fim" /\ max_tentativas = MaxTentativas
    /\ timeouts = MaxTentativas /\ gets = MaxTentativas
    /\ req_retorno.motivo = "timeout"

(***************************************************************************)
(* Further claims on GerenciadorConexaoHibrida (Spec)                      *)
(***************************************************************************)
\* C24: a browser engine that cannot start fails that one call only: the
\* call returns no document with falhas_totais incremented and nothing is
\* raised; every call, the later ones included, begins with the fast
\* strategy, and a fast fetch that succeeds returns its document.
C24_FalhaDoMotorSoNaChamada ==
    [][/\ (pc = "init" /\ chamada'.initRes # "ok") =>
              /\ pc' = "idle"
              /\ retorno' = [conteudo |-> "None", metodo |-> "selenium_init_falhou"]
              /\ stats_metodos' = [stats_metodos EXCEPT !.falhas_totais = @ + 1]
              /\ ~selenium_inicializado'
       /\ hist'.iniciadas = hist.iniciadas + 1 => pc' = "requests"
       /\ (pc = "requests" /\ chamada'.fast = "ok") =>
              /\ pc' = "idle"
              /\ retorno' = [conteudo |-> "html", metodo |-> "requests"]]_vars

\* the engine failed to start in an earlier call, and a later call has
\* returned the document of its fast fetch
C24_Witness ==
    /\ pc = "idle" /\ chamada.fast = "ok" /\ retorno.conteudo = "html"
    /\ stats_metodos.falhas_totais >= 1 /\ hist.navs = 0
    /\ ~selenium_inicializado

\* C27 (as stated): navegar_para_url never executes driver.get on a
\* webdriver on which quit() has been executed.
C27_NaoNavegaComMotorFechado ==
    [][(pc = "navegar" /\ chamada'.navs = chamada.navs + 1) =>
          (driver # 0 /\ quits[driver] = 0)]_vars

\* the webdrivers created and not yet quit
Vivos == {d \in 1..criados : quits[d] = 0}

\* C30 (as stated): at most one webdriver is alive at any moment, and after
\* fechar_conexoes none is, whether inicializar_driver returned True or
\* False after creating it.
C30_UmMotorVivoETodosFechados ==
    [][/\ Cardinality(Vivos') <= 1
       /\ hist'.fechamentos = hist.fechamentos + 1 => Vivos' = {}]_vars

(***************************************************************************)
(* Further claims on the adapters and the orchestrator                     *)
(***************************************************************************)
\* the payload of the page parses and lists at least one product
PayloadListaProdutos ==
    /\ pagina_atual.script.t = "json"
    /\ pagina_atual.script.dados.forma = "objeto"
    /\ pagina_atual.script.dados.products # <<>>

\* every SKU of every listed product is unavailable (and each has SKUs)
TodosIndisponiveis ==
    \A i \in 1..Len(pagina_atual.script.dados.products) :
        LET p == pagina_atual.script.dados.products[i] IN
        /\ p.skus # <<>>
        /\ \A j \in 1..Len(p.skus) : ~SkuDisponivel(p.skus[j])

\* C28 (as stated): when __NEXT_DATA__ parses and lists products,
\* extrair_produtos_pagina returns json_ records only, and none at all when
\* every SKU of every listed product is unavailable.
C28_SemRegistrosHtmlComPayload ==
    (feito /\ PayloadListaProdutos) =>
        /\ \A i \in 1..Len(extraidos) :
              extraidos[i].metodo \in {"json_requests", "json_selenium"}
        /\ TodosIndisponiveis => extraidos = <<>>

\* C29 (as stated): in executar_todos_scrapers, once a KeyboardInterrupt has
\* been received no site begins the fetch of its first term.
C29_InterrupcaoParaTodosOsSites ==
    ~(op = "todos" /\ interrupcoes >= 1 /\ rpc = "fetch" /\ termo = 1)

(***************************************************************************)
(* Claims on the hybrid scraper of src/main.py (SpecHib)                   *)
(***************************************************************************)
\* C25 (as stated): the site headers a GET of fazer_requisicao carries
\* depend only on its URL: they are the ones adicionar_headers_especificos
\* sets for that URL's host, and none that was set for another host.
C25_HeadersSoDoDestino ==
    (hpc \in {"extrair_bs", "selenium", "extrair_selenium", "fim"}
        \/ (hpc = "requests" /\ h_tentativa > 0)) =>
        enviados = AdicionarHeadersEspecificos(HeadersIniciais, url_busca)

\* C26 (as stated): navegar_para_url is called for a term only when
\* fazer_requisicao ended without an HTTP 200; after a 200 from which zero
\* products were extracted the call returns the empty list and the browser
\* is neither invoked nor started.
C26_SeleniumSoAposEsgotar ==
    /\ navegacoes > 0 => h_status # "200"
    /\ (h_status = "200" /\ bs_n = 0 /\ hpc = "fim") =>
          /\ navegacoes = 0
          /\ h_produtos = [n |-> 0, metodo |-> ""]

====
